---- MODULE Spec2Model ----
(***************************************************************************)
(* Case orchestration engine of the triage automation system: the durable  *)
(* job queue, the worker runtime with retry / dead-letter policy, startup  *)
(* reconciliation and the recovery scan, the job-failure finalizer, the    *)
(* cleanup executor and the doctor-decision entrypoints.                   *)
(***************************************************************************)
EXTENDS Integers, Sequences, FiniteSets, TLC

VARIABLES
    prompts,    \* the prompt_templates table and the repository transactions under way
    summary,    \* the supervisor_summary_dispatches table and the scheduler calls under way
    cleanup,    \* one run of ExecuteCleanupService.execute: its locals and its audit rows
    jobs,       \* the jobs table: a sequence of JobRecord, job_id = index
    cases,      \* the cases table: case_id -> case row
    audit,      \* the case_events table: case_id -> event_type -> number of rows
    now,        \* the database clock, in seconds
    wk,         \* worker process -> its in-memory state (pc, claimed batch, scan)
    crashes,    \* number of worker crashes so far
    failures,   \* number of handler runs that raised so far
    returned,   \* worker -> job ids its claim_due_jobs calls have returned
    resp,       \* the response of the latest decision submission
    applied,    \* case_id -> number of decision submissions with outcome APPLIED
    call,       \* the latest call of a pure function: its name, argument, result
    tables      \* further tables: case origins and the creations under way, transcripts

\* the parts of the state the queue, the workers and the decision entrypoints
\* never touch
components == <<call, cleanup, summary, prompts, tables>>

vars == <<jobs, cases, audit, now, wk, crashes, failures, returned, resp, applied,
          components>>

-----------------------------------------------------------------------------
(* Bounds of the model *)

NumWorkers == 2
NumCases == 1
MaxJobs == 6
MaxCrashes == 1
MaxFailures == 3
\* max_attempts of the jobs the model enqueues.  It is a field of
\* JobEnqueueInput (5 unless the caller says otherwise); the retry policy reads
\* it only through attempts + 1 < max_attempts, so the model keeps it small.
MaxAttempts == 2
MaxClaimLimit == 2
ClaimLimit == 1
MaxQueueJobs == 3
MaxClock == 2
MaxSnapshotCases == 2
MaxErrorLen == 302
MaxDeadLetters == 2
MaxRefs == 2
MaxLines == 3
MaxLineTokens == 2
MaxEpoch == 3
NumAdmins == 2
NumPromptNames == 2
MaxVersions == 3
MaxPromptCalls == 2
NumSchedulers == 2
NumWindows == 2
MaxSchedulerCalls == 2
MaxMarks == 2
MaxDispatchFailures == 1

\* the longest details text of a failure payload
DetailsLimit == 300

MaxBackoffAttempt == 30
MaxRunDay == 3
NumCreators == 2
NumRooms == 2
NumEvents == 2
MaxCreateCalls == 2
MaxStatements == 3
MaxTranscriptRows == 2
MaxUnknownJobs == 1

Workers == 1..NumWorkers
Schedulers == 1..NumSchedulers
Admins == 1..NumAdmins
PromptNames == 1..NumPromptNames
Windows == 1..NumWindows
Creators == 1..NumCreators
Cases == 1..NumCases
NoCase == 0

-----------------------------------------------------------------------------
(* Retry backoff *)

BaseSeconds == <<30, 120, 300, 600, 1200>>

Min(a, b) == IF a < b THEN a ELSE b

\* a delay whose jitter ranges over [-20%, +20%]
DelayWithWideJitter(attempt) ==
    LET index == Min(attempt - 1, Len(BaseSeconds) - 1) + 1
        base == BaseSeconds[index]
        jitter_percent == ((attempt * 37) % 41) - 20
        seconds == (base * (100 + jitter_percent)) \div 100
    IN  IF seconds < 1 THEN 1 ELSE seconds

\* compute_retry_delay: base delay by attempt with a +/-10% jitter derived from
\* the attempt number; int() truncates the product.  attempt >= 1 (the code
\* raises ValueError otherwise; the callers below never pass less).
compute_retry_delay(attempt) ==
    LET index == Min(attempt - 1, Len(BaseSeconds) - 1) + 1
        base == BaseSeconds[index]
        jitter_percent == ((attempt * 37) % 21) - 10
        seconds == (base * (100 + jitter_percent)) \div 100
    IN  IF seconds < 1 THEN 1 ELSE seconds

-----------------------------------------------------------------------------
(* Job queue *)

JobTypes == {"process_pdf_case", "post_room2_widget", "post_room3_request",
             "post_room1_final_denial_triage", "post_room1_final_appt",
             "post_room1_final_appt_denied", "post_room1_final_failure",
             "execute_cleanup"}

JobStatuses == {"queued", "running", "done", "failed", "dead"}

\* A text is known by its length and by which of the failure-cause words occur
\* in it (case-insensitively).
CauseWords == <<"download", "extract", "record_extract", "llm1", "llm2">>

Text(len, has) == [len |-> len, has |-> has]

\* last_error = None (an empty text behaves the same wherever it is read)
NoError == Text(0, {})

\* text[:n]
Slice(text, n) == [text EXCEPT !.len = Min(@, n)]

EmptyPayload == [cause |-> "none", details |-> NoError]

\* JobEnqueueInput -> JobRecord: a queued row with attempts = 0.
NewJob(js, job_type, case_id, run_after, max_attempts) ==
    [job_id |-> Len(js) + 1, case_id |-> case_id, job_type |-> job_type,
     status |-> "queued", run_after |-> run_after, attempts |-> 0,
     max_attempts |-> max_attempts, last_error |-> NoError,
     payload |-> EmptyPayload]

enqueue(js, job_type, case_id, run_after, max_attempts) ==
    Append(js, NewJob(js, job_type, case_id, run_after, max_attempts))

enqueue_with(js, job_type, case_id, run_after, max_attempts, payload) ==
    Append(js, [NewJob(js, job_type, case_id, run_after, max_attempts)
                   EXCEPT !.payload = payload])

\* a claim query that does not look at run_after
IsQueued(j, t) == j.status = "queued"

IsDue(j, t) == j.status = "queued" /\ j.run_after <= t

DueIds(js, t) == {i \in 1..Len(js) : IsDue(js[i], t)}

\* (run_after, job_id) order of the claim query
Before(js, a, b) ==
    \/ js[a].run_after < js[b].run_after
    \/ js[a].run_after = js[b].run_after /\ a < b

FirstOf(js, ids) == CHOOSE a \in ids : \A b \in ids \ {a} : Before(js, a, b)

RECURSIVE TakeOrdered(_, _, _)
TakeOrdered(js, ids, limit) ==
    IF limit = 0 \/ ids = {} THEN <<>>
    ELSE LET a == FirstOf(js, ids)
         IN  <<a>> \o TakeOrdered(js, ids \ {a}, limit - 1)

SeqToSet(s) == {s[i] : i \in 1..Len(s)}

\* a claim query that does not skip the rows another transaction has locked
SelectIgnoringLocks(js, t, limit, locked) == TakeOrdered(js, DueIds(js, t), limit)

\* the locking read of claim_due_jobs: due rows in claim order, skipping the
\* rows locked by transactions in flight
SelectSkipLocked(js, t, limit, locked) ==
    TakeOrdered(js, DueIds(js, t) \ locked, limit)

\* the update of claim_due_jobs: the selected rows become running
MarkRunning(js, ids) ==
    [i \in 1..Len(js) |->
        IF i \in ids THEN [js[i] EXCEPT !.status = "running"] ELSE js[i]]

\* claim_due_jobs run with no other transaction in flight: the ids it returns
ClaimedIds(js, t, limit) == SelectSkipLocked(js, t, limit, {})

\* claim_due_jobs run with no other transaction in flight: the table after it
claim_due_jobs(js, t, limit) == MarkRunning(js, SeqToSet(ClaimedIds(js, t, limit)))

mark_done(js, job_id) == [js EXCEPT ![job_id].status = "done"]

mark_failed(js, job_id, last_error) ==
    [js EXCEPT ![job_id].status = "failed", ![job_id].last_error = last_error]

schedule_retry(js, job_id, run_after, last_error) ==
    [js EXCEPT ![job_id].status = "queued",
               ![job_id].attempts = @ + 1,
               ![job_id].run_after = run_after,
               ![job_id].last_error = last_error]

mark_dead(js, job_id, last_error) ==
    [js EXCEPT ![job_id].status = "dead", ![job_id].last_error = last_error]

has_active_job(js, case_id, job_type) ==
    \E i \in 1..Len(js) :
        /\ js[i].case_id = case_id
        /\ js[i].job_type = job_type
        /\ js[i].status \in {"queued", "running"}

\* a reconciliation that resets nothing
ReconcileNothing(js) == js

\* reconcile_running_jobs: every running row goes back to queued
reconcile_running_jobs(js) ==
    [i \in 1..Len(js) |->
        IF js[i].status = "running" THEN [js[i] EXCEPT !.status = "queued"]
        ELSE js[i]]

-----------------------------------------------------------------------------
(* Case state machine *)

CaseStatuses == {"NEW", "PDF_EXTRACTED", "LLM_SUGGEST", "R2_POST_WIDGET",
                 "WAIT_DOCTOR", "DOCTOR_ACCEPTED", "DOCTOR_DENIED",
                 "R3_POST_REQUEST", "WAIT_SCHEDULER", "APPT_CONFIRMED",
                 "APPT_DENIED", "WAIT_R1_CLEANUP_THUMBS", "CLEANUP_RUNNING",
                 "CLEANED", "FAILED"}

\* The documented edges of the case state machine.
DocumentedEdges ==
    {<<"NEW", "PDF_EXTRACTED">>, <<"PDF_EXTRACTED", "LLM_SUGGEST">>,
     <<"LLM_SUGGEST", "R2_POST_WIDGET">>, <<"R2_POST_WIDGET", "WAIT_DOCTOR">>,
     <<"WAIT_DOCTOR", "DOCTOR_ACCEPTED">>, <<"WAIT_DOCTOR", "DOCTOR_DENIED">>,
     <<"DOCTOR_ACCEPTED", "R3_POST_REQUEST">>,
     <<"R3_POST_REQUEST", "WAIT_SCHEDULER">>,
     <<"WAIT_SCHEDULER", "APPT_CONFIRMED">>, <<"WAIT_SCHEDULER", "APPT_DENIED">>,
     <<"APPT_CONFIRMED", "WAIT_R1_CLEANUP_THUMBS">>,
     <<"APPT_DENIED", "WAIT_R1_CLEANUP_THUMBS">>,
     <<"DOCTOR_DENIED", "WAIT_R1_CLEANUP_THUMBS">>,
     <<"FAILED", "WAIT_R1_CLEANUP_THUMBS">>,
     <<"WAIT_R1_CLEANUP_THUMBS", "CLEANUP_RUNNING">>,
     <<"CLEANUP_RUNNING", "CLEANED">>}
    \cup {<<s, "FAILED">> : s \in CaseStatuses \ {"CLEANED", "FAILED"}}

\* update_status: set the status column of one case
update_status(cs, case_id, status) == [cs EXCEPT ![case_id].status = status]

\* mark_cleanup_completed: status CLEANED and cleanup_completed_at set
mark_cleanup_completed(cs, case_id) ==
    [cs EXCEPT ![case_id].status = "CLEANED",
               ![case_id].cleanup_completed_at = TRUE]

AuditTypes == {"RECOVERY_JOB_ENQUEUED", "CASE_FAILED_MAX_RETRIES",
               "JOB_ENQUEUED_POST_ROOM1_FAILURE", "CLEANUP_COMPLETED",
               "DOCTOR_DECISION", "MATRIX_EVENT_REDACTED",
               "MATRIX_EVENT_REDACTION_FAILED"}

\* append_event: one more row of the event type for the case
append_event(au, case_id, event_type) ==
    [au EXCEPT ![case_id][event_type] = @ + 1]

-----------------------------------------------------------------------------
(* Initial state: every case is at a point of the flow the system leaves it *)
(* at, with the job the flow has enqueued for it.                          *)

NoCall == [fn |-> "none", arg |-> "none", out |-> "none"]

IdleWorker == [pc |-> "down", batch |-> <<>>, scan |-> <<>>]

NoResponse ==
    [entry |-> "none", case_id |-> NoCase, decision |-> "none",
     support_flag |-> "none", code |-> 0, outcome |-> "none"]

\* a repository session with no transaction open
NoTx ==
    [pc |-> "idle", op |-> "none", name |-> 0, version |-> 0, scan |-> {},
     off |-> {}, on |-> {}, ins |-> <<>>, result |-> "none", calls |-> 0]

PromptRow(name, version, is_active) ==
    [name |-> name, version |-> version, is_active |-> is_active]

\* the table as the migrations leave it, with a second version created: the
\* first prompt name has its version 1 active, the others have none active
SeededPrompts ==
    [rows |-> [n \in 1..(2 * NumPromptNames) |->
                 PromptRow((n + 1) \div 2, 2 - (n % 2), n = 1)],
     tx |-> [a \in Admins |-> NoTx]]

\* a scheduler process between two calls
IdleScheduler == [pc |-> "idle", window |-> 0, calls |-> 0, claimed_dispatch |-> FALSE,
                  enqueued_job_id |-> 0]

\* an empty dispatch table, no scheduler call made
NoSummary ==
    [rows |-> <<>>,
     procs |-> [p \in Schedulers |-> IdleScheduler],
     claimed |-> [w \in Windows |-> 0],
     marked |-> [w \in Windows |-> 0],
     last |-> [fn |-> "none", window |-> 0, out |-> FALSE]]

\* no cleanup execution has started
IdleCleanup ==
    [pc |-> "idle", case_id |-> NoCase, refs |-> 0, ref |-> 0, attempt |-> 0,
     raised |-> FALSE, error |-> "none", slept |-> 0, calls |-> <<>>, success_count |-> 0,
     failed_count |-> 0, log |-> <<>>]

\* a migration that leaves the message transcripts out
TwoTranscriptTables == {"case_report_transcripts", "case_llm_interactions"}

\* _TRANSCRIPT_TABLES: the tables the append-only migration guards
_TRANSCRIPT_TABLES ==
    {"case_report_transcripts", "case_llm_interactions",
     "case_matrix_message_transcripts"}

\* the transcript tables of the schema
TranscriptTables ==
    {"case_report_transcripts", "case_llm_interactions",
     "case_matrix_message_transcripts"}

IdleCreator == [pc |-> "idle", room_id |-> 0, event_id |-> 0, result |-> "none",
                waited |-> FALSE, calls |-> 0]

NoStatement == [op |-> "none", table |-> "none", matched |-> 0, failed |-> FALSE,
                at_head |-> FALSE, before |-> <<>>, after |-> <<>>]

\* no case created yet; the transcript tables exist, empty, and the
\* append-only migration has not run yet
NoTables ==
    [origins |-> <<>>,
     creators |-> [p \in Creators |-> IdleCreator],
     migration |-> "pending",
     guarded |-> {},
     transcripts |-> [t \in TranscriptTables |-> <<>>],
     statements |-> 0,
     last |-> NoStatement]

StartPoints ==
    {[status |-> "NEW", job_type |-> "process_pdf_case", job_status |-> "queued"],
     [status |-> "WAIT_DOCTOR", job_type |-> "post_room2_widget", job_status |-> "done"],
     [status |-> "CLEANUP_RUNNING", job_type |-> "execute_cleanup", job_status |-> "queued"]}

StartCase(p) ==
    [status |-> p.status, doctor_decision |-> "none", doctor_support_flag |-> "none",
     cleanup_triggered_at |-> (p.status = "CLEANUP_RUNNING"),
     cleanup_completed_at |-> FALSE]

RECURSIVE StartJobs(_, _)
StartJobs(start, n) ==
    IF n = 0 THEN <<>>
    ELSE LET js == StartJobs(start, n - 1)
             j == NewJob(js, start[n].job_type, n, 0, MaxAttempts)
         IN  Append(js, [j EXCEPT !.status = start[n].job_status])

Init ==
    /\ \E start \in [Cases -> StartPoints] :
          /\ cases = [c \in Cases |-> StartCase(start[c])]
          /\ jobs = StartJobs(start, NumCases)
    /\ audit = [c \in Cases |-> [t \in AuditTypes |-> 0]]
    /\ now = 0
    /\ wk = [w \in Workers |-> IdleWorker]
    /\ crashes = 0
    /\ failures = 0
    /\ returned = [w \in Workers |-> {}]
    /\ resp = NoResponse
    /\ applied = [c \in Cases |-> 0]
    /\ call = NoCall
    /\ cleanup = IdleCleanup
    /\ summary = NoSummary
    /\ prompts = SeededPrompts
    /\ tables = NoTables

-----------------------------------------------------------------------------
(* Queue contract under concurrent claimers: the repository test scenario, *)
(* producers enqueueing jobs due now or later and callers claiming.        *)

QueueJobTypes == {"process_pdf_case", "execute_cleanup"}

QueueEnqueue ==
    /\ Len(jobs) < MaxQueueJobs
    /\ \E t \in QueueJobTypes, delay \in {0, 1} :
          jobs' = enqueue(jobs, t, NoCase, now + delay, MaxAttempts)
    /\ UNCHANGED <<cases, audit, now, wk, crashes, failures, returned, resp, applied,
                 components>>

\* rows locked by the claim transaction of caller w
LockedBy(w) ==
    IF wk[w].pc = "tx" THEN {wk[w].batch[i].job_id : i \in 1..Len(wk[w].batch)}
    ELSE {}

Locked == UNION {LockedBy(w) : w \in Workers}

\* claim_due_jobs, first half: the locking read
QueueClaimSelect(w) ==
    /\ wk[w].pc = "down"
    /\ \E limit \in 1..MaxClaimLimit :
          LET ids == SelectSkipLocked(jobs, now, limit, Locked)
          IN  wk' = [wk EXCEPT ![w].pc = "tx",
                               ![w].batch = [i \in 1..Len(ids) |-> jobs[ids[i]]]]
    /\ UNCHANGED <<jobs, cases, audit, now, crashes, failures, returned, resp, applied,
                 components>>

\* claim_due_jobs, second half: update, commit (the locks go), return the rows
QueueClaimCommit(w) ==
    /\ wk[w].pc = "tx"
    /\ jobs' = MarkRunning(jobs, LockedBy(w))
    /\ returned' = [returned EXCEPT ![w] = @ \cup LockedBy(w)]
    /\ wk' = [wk EXCEPT ![w] = IdleWorker]
    /\ UNCHANGED <<cases, audit, now, crashes, failures, resp, applied,
                 components>>

QueueTick ==
    /\ now < MaxClock
    /\ now' = now + 1
    /\ UNCHANGED <<jobs, cases, audit, wk, crashes, failures, returned, resp, applied,
                 components>>

QueueNext ==
    \/ QueueEnqueue
    \/ \E w \in Workers : QueueClaimSelect(w)
    \/ \E w \in Workers : QueueClaimCommit(w)
    \/ QueueTick

SpecQueue == Init /\ [][QueueNext]_vars

-----------------------------------------------------------------------------
(* Handlers: what a successful run of each job type does to its case.      *)

\* build_worker_handlers: the job types with a registered handler
HandlerTypes == {"process_pdf_case", "post_room2_widget", "post_room3_request",
                 "post_room1_final_denial_triage", "post_room1_final_appt",
                 "post_room1_final_appt_denied", "post_room1_final_failure",
                 "execute_cleanup"}

\* The statuses in which a message-flow or pipeline handler acts; in any other
\* status it returns without touching the case.
EntryStatuses(job_type) ==
    CASE job_type = "process_pdf_case" -> {"NEW", "PDF_EXTRACTED"}
      [] job_type = "post_room2_widget" -> {"LLM_SUGGEST", "R2_POST_WIDGET"}
      [] job_type = "post_room3_request" -> {"DOCTOR_ACCEPTED", "R3_POST_REQUEST"}
      [] job_type = "post_room1_final_denial_triage" -> {"DOCTOR_DENIED"}
      [] job_type = "post_room1_final_appt" -> {"APPT_CONFIRMED"}
      [] job_type = "post_room1_final_appt_denied" -> {"APPT_DENIED"}
      [] job_type = "post_room1_final_failure" -> {"FAILED"}
      [] OTHER -> {}

\* The status a handler leaves the case in.
ExitStatus(job_type) ==
    CASE job_type = "process_pdf_case" -> "LLM_SUGGEST"
      [] job_type = "post_room2_widget" -> "WAIT_DOCTOR"
      [] job_type = "post_room3_request" -> "WAIT_SCHEDULER"
      [] OTHER -> "WAIT_R1_CLEANUP_THUMBS"

\* The job a handler enqueues for the next stage ("none": it waits for a human).
FollowUpJob(job_type) ==
    IF job_type = "process_pdf_case" THEN "post_room2_widget" ELSE "none"

-----------------------------------------------------------------------------
(* Recovery scan *)

\* list_non_terminal_cases_for_recovery: snapshots of the cases not CLEANED
RECURSIVE ListFrom(_, _)
ListFrom(cs, c) ==
    IF c > NumCases THEN <<>>
    ELSE (IF cs[c].status # "CLEANED"
          THEN <<[case_id |-> c, status |-> cs[c].status,
                  cleanup_triggered_at |-> cs[c].cleanup_triggered_at,
                  cleanup_completed_at |-> cs[c].cleanup_completed_at]>>
          ELSE <<>>) \o ListFrom(cs, c + 1)

list_non_terminal_cases_for_recovery(cs) == ListFrom(cs, 1)

\* a resolver that does not look at cleanup_completed_at
ResolveIgnoringCompletion(snapshot) ==
    LET status == snapshot.status
    IN  IF status \in {"R2_POST_WIDGET", "LLM_SUGGEST"} THEN "post_room2_widget"
        ELSE IF status \in {"DOCTOR_ACCEPTED", "R3_POST_REQUEST"} THEN "post_room3_request"
        ELSE IF status = "DOCTOR_DENIED" THEN "post_room1_final_denial_triage"
        ELSE IF status = "APPT_CONFIRMED" THEN "post_room1_final_appt"
        ELSE IF status = "APPT_DENIED" THEN "post_room1_final_appt_denied"
        ELSE IF status = "FAILED" THEN "post_room1_final_failure"
        ELSE IF status = "CLEANUP_RUNNING" THEN "execute_cleanup"
        ELSE IF /\ status = "WAIT_R1_CLEANUP_THUMBS"
                /\ snapshot.cleanup_triggered_at THEN "execute_cleanup"
        ELSE "none"

_resolve_recovery_job(snapshot) ==
    LET status == snapshot.status
    IN  IF status \in {"R2_POST_WIDGET", "LLM_SUGGEST"} THEN "post_room2_widget"
        ELSE IF status \in {"DOCTOR_ACCEPTED", "R3_POST_REQUEST"} THEN "post_room3_request"
        ELSE IF status = "DOCTOR_DENIED" THEN "post_room1_final_denial_triage"
        ELSE IF status = "APPT_CONFIRMED" THEN "post_room1_final_appt"
        ELSE IF status = "APPT_DENIED" THEN "post_room1_final_appt_denied"
        ELSE IF status = "FAILED" THEN "post_room1_final_failure"
        ELSE IF status = "CLEANUP_RUNNING" THEN "execute_cleanup"
        ELSE IF /\ status = "WAIT_R1_CLEANUP_THUMBS"
                /\ snapshot.cleanup_triggered_at
                /\ ~snapshot.cleanup_completed_at THEN "execute_cleanup"
        ELSE "none"

\* recover(), the test of one snapshot: is a continuation job to be enqueued?
RecoveryWanted(js, snapshot) ==
    /\ _resolve_recovery_job(snapshot) # "none"
    /\ ~has_active_job(js, snapshot.case_id, _resolve_recovery_job(snapshot))

-----------------------------------------------------------------------------
(* Worker process *)

Pop(w) == [wk EXCEPT ![w].batch = Tail(@),
                     ![w].pc = IF Len(wk[w].batch) > 1 THEN "run" ELSE "poll"]

\* a worker that starts without the startup reconciliation
WorkerStartWithoutReconcile(w) ==
    /\ wk[w].pc = "down"
    /\ wk' = [wk EXCEPT ![w].pc = "recover"]
    /\ UNCHANGED <<jobs, cases, audit, now, crashes, failures, returned, resp, applied,
                 components>>

\* _run_worker: reconcile_running_jobs, then the recovery scan
WorkerStart(w) ==
    /\ wk[w].pc = "down"
    /\ jobs' = reconcile_running_jobs(jobs)
    /\ wk' = [wk EXCEPT ![w].pc = "recover"]
    /\ UNCHANGED <<cases, audit, now, crashes, failures, returned, resp, applied,
                 components>>

RecoverList(w) ==
    /\ wk[w].pc = "recover"
    /\ wk' = [wk EXCEPT ![w].pc = "scan",
                        ![w].scan = list_non_terminal_cases_for_recovery(cases)]
    /\ UNCHANGED <<jobs, cases, audit, now, crashes, failures, returned, resp, applied,
                 components>>

RecoverSkip(w) ==
    /\ wk[w].pc = "scan"
    /\ wk[w].scan # <<>>
    /\ ~RecoveryWanted(jobs, Head(wk[w].scan))
    /\ wk' = [wk EXCEPT ![w].scan = Tail(@)]
    /\ UNCHANGED <<jobs, cases, audit, now, crashes, failures, returned, resp, applied,
                 components>>

RecoverCheck(w) ==
    /\ wk[w].pc = "scan"
    /\ wk[w].scan # <<>>
    /\ RecoveryWanted(jobs, Head(wk[w].scan))
    /\ wk' = [wk EXCEPT ![w].pc = "rec_enqueue"]
    /\ UNCHANGED <<jobs, cases, audit, now, crashes, failures, returned, resp, applied,
                 components>>

RecoverEnqueue(w) ==
    /\ wk[w].pc = "rec_enqueue"
    /\ Len(jobs) < MaxJobs
    /\ LET snapshot == Head(wk[w].scan)
           recovery_job == _resolve_recovery_job(snapshot)
           payload == IF recovery_job = "post_room1_final_failure"
                      THEN [cause |-> "other", details |-> Text(50, {})]
                      ELSE EmptyPayload
       IN  jobs' = enqueue_with(jobs, recovery_job, snapshot.case_id, now,
                                MaxAttempts, payload)
    /\ wk' = [wk EXCEPT ![w].pc = "rec_audit"]
    /\ UNCHANGED <<cases, audit, now, crashes, failures, returned, resp, applied,
                 components>>

RecoverAudit(w) ==
    /\ wk[w].pc = "rec_audit"
    /\ audit' = append_event(audit, Head(wk[w].scan).case_id, "RECOVERY_JOB_ENQUEUED")
    /\ wk' = [wk EXCEPT ![w].pc = "scan", ![w].scan = Tail(@)]
    /\ UNCHANGED <<jobs, cases, now, crashes, failures, returned, resp, applied,
                 components>>

RecoverDone(w) ==
    /\ wk[w].pc = "scan"
    /\ wk[w].scan = <<>>
    /\ wk' = [wk EXCEPT ![w].pc = "poll"]
    /\ UNCHANGED <<jobs, cases, audit, now, crashes, failures, returned, resp, applied,
                 components>>

\* run_once: claim a batch of due jobs
WorkerClaim(w) ==
    /\ wk[w].pc = "poll"
    /\ \E limit \in 1..ClaimLimit :
          LET ids == ClaimedIds(jobs, now, limit)
              after == claim_due_jobs(jobs, now, limit)
          IN  /\ ids # <<>>
              /\ jobs' = after
              /\ wk' = [wk EXCEPT ![w].pc = "run",
                                  ![w].batch = [i \in 1..Len(ids) |-> after[ids[i]]]]
    /\ UNCHANGED <<cases, audit, now, crashes, failures, returned, resp, applied,
                 components>>

\* the handler of the job in hand returns normally
HandlerReturns(w) ==
    /\ wk[w].pc = "run"
    /\ LET job == Head(wk[w].batch)
           c == job.case_id
       IN  /\ job.job_type \in HandlerTypes
           /\ job.job_type # "execute_cleanup"
           /\ IF c # NoCase /\ cases[c].status \in EntryStatuses(job.job_type)
              THEN /\ FollowUpJob(job.job_type) # "none" => Len(jobs) < MaxJobs
                   /\ cases' = update_status(cases, c, ExitStatus(job.job_type))
                   /\ jobs' = IF FollowUpJob(job.job_type) # "none"
                              THEN enqueue(jobs, FollowUpJob(job.job_type), c, now,
                                           MaxAttempts)
                              ELSE jobs
              ELSE UNCHANGED <<cases, jobs>>
    /\ wk' = [wk EXCEPT ![w].pc = "ok"]
    /\ UNCHANGED <<audit, now, crashes, failures, returned, resp, applied,
                 components>>

\* ExecuteCleanupService.execute runs to its end
CleanupReturns(w) ==
    /\ wk[w].pc = "run"
    /\ LET job == Head(wk[w].batch)
       IN  /\ job.job_type = "execute_cleanup"
           /\ job.case_id # NoCase
           /\ cases' = mark_cleanup_completed(cases, job.case_id)
           /\ audit' = append_event(audit, job.case_id, "CLEANUP_COMPLETED")
    /\ wk' = [wk EXCEPT ![w].pc = "ok"]
    /\ UNCHANGED <<jobs, now, crashes, failures, returned, resp, applied,
                 components>>

\* the handler raises before it has written anything (or no handler is
\* registered for the job type)
HandlerRaises(w) ==
    /\ wk[w].pc = "run"
    /\ failures < MaxFailures
    /\ failures' = failures + 1
    /\ wk' = [wk EXCEPT ![w].pc = "err"]
    /\ UNCHANGED <<jobs, cases, audit, now, crashes, returned, resp, applied,
                 components>>

\* a runtime that reports every failure as the handler's error
HandlerErrorText(job) == Text(13, {})

\* str(error) of a handler that raised / of the unknown-job-type error
ErrorText(job) ==
    IF job.job_type \in HandlerTypes THEN Text(13, {}) ELSE Text(30, {})

\* on success: mark_done
WorkerMarkDone(w) ==
    /\ wk[w].pc = "ok"
    /\ jobs' = mark_done(jobs, Head(wk[w].batch).job_id)
    /\ wk' = Pop(w)
    /\ UNCHANGED <<cases, audit, now, crashes, failures, returned, resp, applied,
                 components>>

WillRetry(job) == job.attempts + 1 < job.max_attempts

\* on error, retries left: schedule_retry with backoff
WorkerRetry(w) ==
    /\ wk[w].pc = "err"
    /\ LET job == Head(wk[w].batch)
       IN  /\ WillRetry(job)
           /\ jobs' = schedule_retry(jobs, job.job_id,
                                     now + compute_retry_delay(job.attempts + 1),
                                     ErrorText(job))
    /\ wk' = Pop(w)
    /\ UNCHANGED <<cases, audit, now, crashes, failures, returned, resp, applied,
                 components>>

\* on error, retries exhausted: mark_dead, then the job-failure finalizer
WorkerDead(w) ==
    /\ wk[w].pc = "err"
    /\ LET job == Head(wk[w].batch)
       IN  /\ ~WillRetry(job)
           /\ jobs' = mark_dead(jobs, job.job_id, ErrorText(job))
           /\ wk' = [wk EXCEPT ![w].pc = "fin_status",
                               ![w].batch[1] = jobs'[job.job_id]]
    /\ UNCHANGED <<cases, audit, now, crashes, failures, returned, resp, applied,
                 components>>

\* the first cause word, in the order of CauseWords, that occurs in the text
RECURSIVE FirstCause(_, _)
FirstCause(text, k) ==
    IF k > Len(CauseWords) THEN "other"
    ELSE IF CauseWords[k] \in text.has THEN CauseWords[k]
    ELSE FirstCause(text, k + 1)

_categorize_failure(last_error) ==
    IF last_error.len = 0 THEN "other" ELSE FirstCause(last_error, 1)

\* "unknown error"
UnknownError == Text(13, {})

\* a failure payload that carries the whole error text
FailurePayloadUncut(job) ==
    [cause |-> _categorize_failure(job.last_error),
     details |-> IF job.last_error.len = 0 THEN UnknownError ELSE job.last_error]

\* handle_max_retries: the payload of the failure job
failure_payload(job) ==
    [cause |-> _categorize_failure(job.last_error),
     details |-> Slice(IF job.last_error.len = 0 THEN UnknownError
                       ELSE job.last_error, DetailsLimit)]

\* handle_max_retries: return at once for a job without case, otherwise
\* update_status(FAILED), whatever the case's status is
FinalizeStatus(w) ==
    /\ wk[w].pc = "fin_status"
    /\ LET job == Head(wk[w].batch)
       IN  IF job.case_id = NoCase
           THEN /\ wk' = Pop(w)
                /\ UNCHANGED cases
           ELSE /\ cases' = update_status(cases, job.case_id, "FAILED")
                /\ wk' = [wk EXCEPT ![w].pc = "fin_audit"]
    /\ UNCHANGED <<jobs, audit, now, crashes, failures, returned, resp, applied,
                 components>>

\* handle_max_retries: CASE_FAILED_MAX_RETRIES event
FinalizeAudit(w) ==
    /\ wk[w].pc = "fin_audit"
    /\ audit' = append_event(audit, Head(wk[w].batch).case_id, "CASE_FAILED_MAX_RETRIES")
    /\ wk' = [wk EXCEPT ![w].pc = "fin_enqueue"]
    /\ UNCHANGED <<jobs, cases, now, crashes, failures, returned, resp, applied,
                 components>>

\* handle_max_retries: enqueue post_room1_final_failure and its event
FinalizeEnqueue(w) ==
    /\ wk[w].pc = "fin_enqueue"
    /\ Len(jobs) < MaxJobs
    /\ jobs' = enqueue_with(jobs, "post_room1_final_failure",
                            Head(wk[w].batch).case_id, now, MaxAttempts,
                            failure_payload(Head(wk[w].batch)))
    /\ audit' = append_event(audit, Head(wk[w].batch).case_id,
                             "JOB_ENQUEUED_POST_ROOM1_FAILURE")
    /\ wk' = Pop(w)
    /\ UNCHANGED <<cases, now, crashes, failures, returned, resp, applied,
                 components>>

\* the worker process dies; its memory is lost, the tables stay
WorkerCrash(w) ==
    /\ wk[w].pc # "down"
    /\ crashes < MaxCrashes
    /\ crashes' = crashes + 1
    /\ wk' = [wk EXCEPT ![w] = IdleWorker]
    /\ UNCHANGED <<jobs, cases, audit, now, failures, returned, resp, applied,
                 components>>

\* time passes until the next scheduled retry is due
FutureRuns == {jobs[i].run_after : i \in {k \in 1..Len(jobs) :
                    jobs[k].status = "queued" /\ jobs[k].run_after > now}}

Tick ==
    /\ FutureRuns # {}
    /\ now' = CHOOSE t \in FutureRuns : \A u \in FutureRuns : t <= u
    /\ UNCHANGED <<jobs, cases, audit, wk, crashes, failures, returned, resp, applied,
                 components>>

-----------------------------------------------------------------------------
(* Doctor decision: payload validation, the decision use-case and its      *)
(* three entrypoints.                                                      *)

Decisions == {"accept", "deny"}
SupportFlags == {"none", "anesthesist", "anesthesist_icu"}
UnknownCase == NumCases + 1
Room2 == "room2"
Rooms == {"room2", "room3"}

\* a payload validation without the deny rule
ValidWithoutDenyRule(decision, support_flag) ==
    ~(decision = "accept" /\ support_flag \notin SupportFlags)

\* TriageDecisionWebhookPayload._validate_decision_specific_rules
ValidPayload(decision, support_flag) ==
    /\ ~(decision = "deny" /\ support_flag # "none")
    /\ ~(decision = "accept" /\ support_flag \notin SupportFlags)

\* _validate_decision_support_flag of the Room-2 reply parser: the reason it
\* raises, "ok" when it does not
ParseReason(decision, support_flag) ==
    IF decision = "deny" /\ support_flag # "none"
    THEN "invalid_support_flag_for_decision"
    ELSE "ok"

\* a use-case that applies a decision whatever the case's status
OutcomeIgnoringStatus(cs, case_id) ==
    IF case_id \notin Cases THEN "not_found" ELSE "applied"

\* HandleDoctorDecisionService.handle: the outcome for a case id
DecisionOutcome(cs, case_id) ==
    IF case_id \notin Cases THEN "not_found"
    ELSE IF cs[case_id].status # "WAIT_DOCTOR" THEN "wrong_state"
    ELSE "applied"

DecidedStatus(decision) ==
    IF decision = "accept" THEN "DOCTOR_ACCEPTED" ELSE "DOCTOR_DENIED"

\* a use-case that enqueues the Room-3 request for either decision
Room3JobAlways(decision) == "post_room3_request"

DecisionJob(decision) ==
    IF decision = "accept" THEN "post_room3_request"
    ELSE "post_room1_final_denial_triage"

\* the case row after an applied decision
ApplyDecision(cs, case_id, decision, support_flag) ==
    [cs EXCEPT ![case_id].status = DecidedStatus(decision),
               ![case_id].doctor_decision = decision,
               ![case_id].doctor_support_flag = support_flag]

\* HandleDoctorDecisionService.handle: one transaction
Handle(case_id, decision, support_flag) ==
    IF DecisionOutcome(cases, case_id) = "applied"
    THEN /\ Len(jobs) < MaxJobs
         /\ cases' = ApplyDecision(cases, case_id, decision, support_flag)
         /\ audit' = append_event(audit, case_id, "DOCTOR_DECISION")
         /\ jobs' = enqueue(jobs, DecisionJob(decision), case_id, now,
                            MaxAttempts)
         /\ applied' = [applied EXCEPT ![case_id] = @ + 1]
    ELSE UNCHANGED <<cases, audit, jobs, applied>>

HttpCode(outcome) ==
    CASE outcome = "applied" -> 200
      [] outcome = "not_found" -> 404
      [] outcome = "wrong_state" -> 409
      [] OTHER -> 400

Response(entry, case_id, decision, support_flag, code, outcome) ==
    [entry |-> entry, case_id |-> case_id, decision |-> decision,
     support_flag |-> support_flag, code |-> code, outcome |-> outcome]

\* POST /callbacks/triage-decision (signature already verified)
WebhookDecision(case_id, decision, support_flag) ==
    /\ IF ValidPayload(decision, support_flag)
       THEN /\ Handle(case_id, decision, support_flag)
            /\ resp' = Response("webhook", case_id, decision, support_flag,
                                HttpCode(DecisionOutcome(cases, case_id)),
                                DecisionOutcome(cases, case_id))
       ELSE /\ resp' = Response("webhook", case_id, decision, support_flag,
                                400, "invalid")
            /\ UNCHANGED <<cases, audit, jobs, applied>>
    /\ UNCHANGED <<now, wk, crashes, failures, returned,
                 components>>

\* POST /widget/room2/submit (admin already authenticated).  A payload the
\* validator refuses never reaches the use-case; the route answers 422 when its
\* own request model refuses it and 500 when model_validate raises inside it.
WidgetSubmit(case_id, decision, support_flag) ==
    /\ IF ValidPayload(decision, support_flag)
       THEN /\ Handle(case_id, decision, support_flag)
            /\ resp' = Response("widget", case_id, decision, support_flag,
                                HttpCode(DecisionOutcome(cases, case_id)),
                                DecisionOutcome(cases, case_id))
       ELSE /\ \E code \in {422, 500} :
                 resp' = Response("widget", case_id, decision, support_flag,
                                  code, "invalid")
            /\ UNCHANGED <<cases, audit, jobs, applied>>
    /\ UNCHANGED <<now, wk, crashes, failures, returned,
                 components>>

\* a Room-2 reply event: parse_room2_decision_reply_event, then
\* Room2ReplyService.handle_reply
Room2Reply(room_id, case_id, decision, support_flag) ==
    /\ IF ParseReason(decision, support_flag) # "ok"
       THEN /\ resp' = Response("room2", case_id, decision, support_flag, 0,
                                ParseReason(decision, support_flag))
            /\ UNCHANGED <<cases, audit, jobs, applied>>
       ELSE IF room_id # Room2
       THEN /\ resp' = Response("room2", case_id, decision, support_flag, 0,
                                "wrong_room")
            /\ UNCHANGED <<cases, audit, jobs, applied>>
       ELSE IF ValidPayload(decision, support_flag)
       THEN /\ Handle(case_id, decision, support_flag)
            /\ resp' = Response("room2", case_id, decision, support_flag, 0,
                                DecisionOutcome(cases, case_id))
       ELSE /\ resp' = Response("room2", case_id, decision, support_flag, 0,
                                "invalid")
            /\ UNCHANGED <<cases, audit, jobs, applied>>
    /\ UNCHANGED <<now, wk, crashes, failures, returned,
                 components>>

\* the decision use-case as the engine sees it: a valid submission for a case
\* in WAIT_DOCTOR arrives through some entrypoint
DecisionApplied(case_id, decision, support_flag) ==
    /\ ValidPayload(decision, support_flag)
    /\ DecisionOutcome(cases, case_id) = "applied"
    /\ Handle(case_id, decision, support_flag)
    /\ UNCHANGED <<now, wk, crashes, failures, returned, resp,
                 components>>

DecisionNext ==
    \E case_id \in Cases \cup {UnknownCase}, decision \in Decisions,
       support_flag \in SupportFlags :
        \/ WebhookDecision(case_id, decision, support_flag)
        \/ WidgetSubmit(case_id, decision, support_flag)
        \/ \E room_id \in Rooms : Room2Reply(room_id, case_id, decision, support_flag)

SpecDecision == Init /\ [][DecisionNext]_vars

WorkerNext(w) ==
    \/ WorkerStart(w)
    \/ RecoverList(w)
    \/ RecoverSkip(w)
    \/ RecoverCheck(w)
    \/ RecoverEnqueue(w)
    \/ RecoverAudit(w)
    \/ RecoverDone(w)
    \/ WorkerClaim(w)
    \/ HandlerReturns(w)
    \/ CleanupReturns(w)
    \/ HandlerRaises(w)
    \/ WorkerMarkDone(w)
    \/ WorkerRetry(w)
    \/ WorkerDead(w)
    \/ FinalizeStatus(w)
    \/ FinalizeAudit(w)
    \/ FinalizeEnqueue(w)
    \/ WorkerCrash(w)

Next ==
    \/ \E w \in Workers : WorkerNext(w)
    \/ Tick
    \/ \E case_id \in Cases, decision \in Decisions, support_flag \in SupportFlags :
          DecisionApplied(case_id, decision, support_flag)

Spec == Init /\ [][Next]_vars

\* what a worker process does while it is up, and coming up again when down
WorkerRuns(w) ==
    \/ WorkerStart(w)
    \/ RecoverList(w)
    \/ RecoverSkip(w)
    \/ RecoverCheck(w)
    \/ RecoverEnqueue(w)
    \/ RecoverAudit(w)
    \/ RecoverDone(w)
    \/ WorkerClaim(w)
    \/ HandlerReturns(w)
    \/ CleanupReturns(w)
    \/ HandlerRaises(w)
    \/ WorkerMarkDone(w)
    \/ WorkerRetry(w)
    \/ WorkerDead(w)
    \/ FinalizeStatus(w)
    \/ FinalizeAudit(w)
    \/ FinalizeEnqueue(w)

\* Fair scheduling: every worker process keeps taking steps (a crashed one is
\* started again), and time passes.
Fairness ==
    /\ \A w \in Workers : WF_vars(WorkerRuns(w))
    /\ WF_vars(Tick)

\* The engine on its own: the workers and the clock, no doctor at the keyboard.
EngineNext ==
    \/ \E w \in Workers : WorkerNext(w)
    \/ Tick

SpecLive == Init /\ [][EngineNext]_vars /\ Fairness

-----------------------------------------------------------------------------
(* The job-failure finalizer on its own: a worker has dead-lettered a job, *)
(* with or without a case and with any error text, and runs                *)
(* handle_max_retries on the record mark_dead returned.                    *)

ErrorTexts ==
    {NoError} \cup
    {Text(len, has) :
        len \in {14, DetailsLimit, MaxErrorLen},
        has \in {{}, {"llm2"}, {"extract", "record_extract"}, {"download", "llm2"}}}

DeadLetterArrives(w) ==
    /\ wk[w].pc \in {"down", "poll"}
    /\ Len(jobs) + 2 <= MaxJobs
    /\ Cardinality({i \in 1..Len(jobs) : jobs[i].status = "dead"}) < MaxDeadLetters
    /\ \E case_id \in Cases \cup {NoCase}, job_type \in QueueJobTypes,
          last_error \in ErrorTexts :
          LET job == [NewJob(jobs, job_type, case_id, now, MaxAttempts)
                         EXCEPT !.status = "dead",
                                !.attempts = MaxAttempts - 1,
                                !.last_error = last_error]
          IN  /\ jobs' = Append(jobs, job)
              /\ wk' = [wk EXCEPT ![w] = [pc |-> "fin_status", batch |-> <<job>>,
                                          scan |-> <<>>]]
    /\ UNCHANGED <<cases, audit, now, crashes, failures, returned, resp, applied,
                   components>>

FailureNext ==
    \E w \in Workers :
        \/ DeadLetterArrives(w)
        \/ FinalizeStatus(w)
        \/ FinalizeAudit(w)
        \/ FinalizeEnqueue(w)

SpecFailure == Init /\ [][FailureNext]_vars

-----------------------------------------------------------------------------
(* The recovery mapping on its own: _resolve_recovery_job applied to every *)
(* snapshot the case repository can hand to recover().                     *)

Snapshots ==
    [case_id : 1..MaxSnapshotCases, status : CaseStatuses,
     cleanup_triggered_at : BOOLEAN, cleanup_completed_at : BOOLEAN]

ResolveCall ==
    /\ \E snapshot \in Snapshots :
          call' = [fn |-> "_resolve_recovery_job", arg |-> snapshot,
                   out |-> _resolve_recovery_job(snapshot)]
    /\ UNCHANGED <<jobs, cases, audit, now, wk, crashes, failures, returned, resp,
                   applied, cleanup, summary, prompts, tables>>

SpecResolve == Init /\ [][ResolveCall]_vars

-----------------------------------------------------------------------------
(* The cleanup executor on its own: one run of execute over the tracked    *)
(* messages of a case, the chat adapter answering each redaction with      *)
(* success or with any error.                                              *)

max_redaction_attempts == 5
_MIN_RETRY_DELAY_SECONDS == 200     \* 0.2 s; delays are in milliseconds here
None == 0 - 1                       \* no status_code / no retry_after_ms / no delay

\* a text as far as _extract_retry_after_ms_from_text reads it: the integer
\* under "retry_after_ms" when the text is a JSON object that has one, and the
\* digits the pattern "retry_after_ms" : (digits) finds in the raw text
RetryTexts ==
    {[parsed |-> None, matched |-> None],
     [parsed |-> 100, matched |-> 100],
     [parsed |-> 500, matched |-> 500],
     [parsed |-> None, matched |-> 500]}

\* an error of the adapter as far as _extract_retry_delay_seconds reads it:
\* its status_code attribute (None when it has none or it is not an int),
\* str(details) and str(error)
Errors == [status_code : {429, 500, None}, details : RetryTexts, message : RetryTexts]

_extract_retry_after_ms_from_text(text) ==
    IF text.parsed # None THEN text.parsed ELSE text.matched

\* the same without the status check of line 177
RetryDelayIgnoringStatus(error) ==
    LET in_details == _extract_retry_after_ms_from_text(error.details)
        retry_after_ms == IF in_details # None THEN in_details
                          ELSE _extract_retry_after_ms_from_text(error.message)
    IN  IF retry_after_ms = None
        THEN IF error.status_code = 429 THEN _MIN_RETRY_DELAY_SECONDS ELSE None
        ELSE IF retry_after_ms > _MIN_RETRY_DELAY_SECONDS THEN retry_after_ms
             ELSE _MIN_RETRY_DELAY_SECONDS

_extract_retry_delay_seconds(error) ==
    IF error.status_code # None /\ error.status_code # 429 THEN None
    ELSE LET in_details == _extract_retry_after_ms_from_text(error.details)
             retry_after_ms == IF in_details # None THEN in_details
                               ELSE _extract_retry_after_ms_from_text(error.message)
         IN  IF retry_after_ms = None
             THEN IF error.status_code = 429 THEN _MIN_RETRY_DELAY_SECONDS ELSE None
             ELSE IF retry_after_ms > _MIN_RETRY_DELAY_SECONDS THEN retry_after_ms
                  ELSE _MIN_RETRY_DELAY_SECONDS

\* execute, lines 64-69: the refs are listed and the counters start at zero
ExecuteStart ==
    /\ cleanup.pc = "idle"
    /\ \E case_id \in Cases, n \in 0..MaxRefs :
          cleanup' = [IdleCleanup EXCEPT
                         !.pc = IF n = 0 THEN "complete" ELSE "redact",
                         !.case_id = case_id, !.refs = n,
                         !.ref = IF n = 0 THEN 0 ELSE 1,
                         !.attempt = IF n = 0 THEN 0 ELSE 1,
                         !.calls = [k \in 1..n |-> 0]]
    /\ UNCHANGED <<jobs, cases, audit, now, wk, crashes, failures, returned, resp,
                   applied, call, summary, prompts, tables>>

\* the loop of execute goes to the next ref, or leaves the loop
NextRef(c) ==
    IF c.ref < c.refs
    THEN [c EXCEPT !.pc = "redact", !.ref = @ + 1, !.attempt = 1]
    ELSE [c EXCEPT !.pc = "complete"]

\* _redact_with_retry: one turn of its loop. The adapter succeeds, or raises;
\* the error is raised again when it gives no delay or the attempts are used
\* up, otherwise the executor sleeps for the delay and takes the next turn.
RedactAttempt ==
    /\ cleanup.pc = "redact"
    /\ \/ cleanup' = [cleanup EXCEPT !.pc = "audit_ok", !.raised = FALSE,
                                      !.calls[cleanup.ref] = @ + 1]
       \/ \E error \in Errors :
             LET retry_delay_seconds == _extract_retry_delay_seconds(error)
             IN  IF retry_delay_seconds = None
                    \/ cleanup.attempt >= max_redaction_attempts
                 THEN cleanup' = [cleanup EXCEPT !.pc = "audit_failed",
                                                 !.raised = TRUE,
                                                 !.error = error,
                                                 !.calls[cleanup.ref] = @ + 1]
                 ELSE cleanup' = [cleanup EXCEPT !.raised = TRUE,
                                                 !.error = error,
                                                 !.slept = retry_delay_seconds,
                                                 !.attempt = @ + 1,
                                                 !.calls[cleanup.ref] = @ + 1]
    /\ UNCHANGED <<jobs, cases, audit, now, wk, crashes, failures, returned, resp,
                   applied, call, summary, prompts, tables>>

\* an audit row of the run
Row(event_type, ref, success, failed) ==
    [event_type |-> event_type, ref |-> ref, count_redacted_success |-> success,
     count_redacted_failed |-> failed]

\* the same with an executor that does not count the failure
CountNoFailure(c) == c

\* execute, line 79
CountFailure(c) == [c EXCEPT !.failed_count = @ + 1]

\* execute, lines 78-97: the redaction failed
AuditFailed ==
    /\ cleanup.pc = "audit_failed"
    /\ audit' = append_event(audit, cleanup.case_id, "MATRIX_EVENT_REDACTION_FAILED")
    /\ cleanup' = NextRef([CountFailure(cleanup) EXCEPT
                      !.log = Append(@, Row("MATRIX_EVENT_REDACTION_FAILED",
                                            cleanup.ref, 0, 0))])
    /\ UNCHANGED <<jobs, cases, now, wk, crashes, failures, returned, resp,
                   applied, call, summary, prompts, tables>>

\* execute, lines 99-115: the redaction succeeded
AuditRedacted ==
    /\ cleanup.pc = "audit_ok"
    /\ audit' = append_event(audit, cleanup.case_id, "MATRIX_EVENT_REDACTED")
    /\ cleanup' = NextRef([cleanup EXCEPT
                      !.success_count = @ + 1,
                      !.log = Append(@, Row("MATRIX_EVENT_REDACTED",
                                            cleanup.ref, 0, 0))])
    /\ UNCHANGED <<jobs, cases, now, wk, crashes, failures, returned, resp,
                   applied, call, summary, prompts, tables>>

\* execute, line 117
MarkCompleted ==
    /\ cleanup.pc = "complete"
    /\ cases' = mark_cleanup_completed(cases, cleanup.case_id)
    /\ cleanup' = [cleanup EXCEPT !.pc = "completed"]
    /\ UNCHANGED <<jobs, audit, now, wk, crashes, failures, returned, resp,
                   applied, call, summary, prompts, tables>>

\* execute, lines 118-139
AuditCompleted ==
    /\ cleanup.pc = "completed"
    /\ audit' = append_event(audit, cleanup.case_id, "CLEANUP_COMPLETED")
    /\ cleanup' = [cleanup EXCEPT
                      !.pc = "done",
                      !.log = Append(@, Row("CLEANUP_COMPLETED", 0,
                                            cleanup.success_count,
                                            cleanup.failed_count))]
    /\ UNCHANGED <<jobs, cases, now, wk, crashes, failures, returned, resp,
                   applied, call, summary, prompts, tables>>

CleanupNext ==
    \/ ExecuteStart
    \/ RedactAttempt
    \/ AuditFailed
    \/ AuditRedacted
    \/ MarkCompleted
    \/ AuditCompleted

SpecCleanup == Init /\ [][CleanupNext]_vars

-----------------------------------------------------------------------------
(* The Room-4 summary scheduler: processes calling                         *)
(* enqueue_previous_window_summary for the windows their clocks resolve    *)
(* to, each call a claim_window (an INSERT, and on a duplicate key an       *)
(* UPDATE of a failed row) followed by an enqueue.                         *)

DispatchRow(w) ==
    [window |-> w, status |-> "pending", sent_at |-> 0, matrix_event_id |-> 0,
     last_error |-> FALSE]

RowsOfWindow(rows, w) == {n \in 1..Len(rows) : rows[n].window = w}

\* the same on a table without the unique key on (room_id, window_start,
\* window_end)
NoDuplicateCheck(rows, w) == FALSE

\* uq_supervisor_summary_dispatches_room_window: the INSERT of a second row for
\* the window raises IntegrityError
IsDuplicate(rows, w) == RowsOfWindow(rows, w) # {}

\* the reclaim UPDATE ... WHERE status = 'failed': the rows it changes
ReclaimedRows(rows, w) == {n \in RowsOfWindow(rows, w) : rows[n].status = "failed"}

\* the same with the status condition left out
MarkAnyRow(rows, w) == RowsOfWindow(rows, w)

\* the mark_sent UPDATE ... WHERE status = 'pending': the rows it changes
MarkedRows(rows, w) == {n \in RowsOfWindow(rows, w) : rows[n].status = "pending"}

\* enqueue_previous_window_summary, lines 66-78, claim_window lines 63-74: the
\* window is resolved and the INSERT is tried
ClaimInsert(p) ==
    LET me == summary.procs[p]
    IN  /\ me.pc = "idle"
        /\ me.calls < MaxSchedulerCalls
        /\ \E w \in Windows :
              IF IsDuplicate(summary.rows, w)
              THEN summary' = [summary EXCEPT
                        !.procs[p] = [me EXCEPT !.pc = "reclaim", !.window = w,
                                                !.calls = @ + 1,
                                                !.claimed_dispatch = FALSE,
                                                !.enqueued_job_id = 0]]
              ELSE summary' = [summary EXCEPT
                        !.rows = Append(@, DispatchRow(w)),
                        !.claimed[w] = @ + 1,
                        !.procs[p] = [me EXCEPT !.pc = "enqueue", !.window = w,
                                                !.calls = @ + 1,
                                                !.claimed_dispatch = TRUE,
                                                !.enqueued_job_id = 0]]
        /\ UNCHANGED <<jobs, cases, audit, now, wk, crashes, failures, returned,
                       resp, applied, call, cleanup, prompts, tables>>

\* claim_window, lines 75-96: after the rollback, the compare-and-set of a
\* failed row to pending; the call returns without a job when no row changed
ClaimReclaim(p) ==
    LET me == summary.procs[p]
        hit == ReclaimedRows(summary.rows, me.window)
    IN  /\ me.pc = "reclaim"
        /\ IF Cardinality(hit) = 1
           THEN summary' = [summary EXCEPT
                     !.rows = [n \in 1..Len(@) |->
                                 IF n \in hit
                                 THEN [@[n] EXCEPT !.status = "pending",
                                                   !.last_error = FALSE]
                                 ELSE @[n]],
                     !.claimed[me.window] = @ + 1,
                     !.procs[p] = [me EXCEPT !.pc = "enqueue",
                                             !.claimed_dispatch = TRUE]]
           ELSE summary' = [summary EXCEPT
                     !.rows = [n \in 1..Len(@) |->
                                 IF n \in hit
                                 THEN [@[n] EXCEPT !.status = "pending",
                                                   !.last_error = FALSE]
                                 ELSE @[n]],
                     !.procs[p] = [me EXCEPT !.pc = "idle"]]
        /\ UNCHANGED <<jobs, cases, audit, now, wk, crashes, failures, returned,
                       resp, applied, call, cleanup, prompts, tables>>

\* enqueue_previous_window_summary, lines 86-103
SummaryEnqueue(p) ==
    LET me == summary.procs[p]
    IN  /\ me.pc = "enqueue"
        /\ Len(jobs) < MaxJobs
        /\ jobs' = enqueue_with(jobs, "post_room4_summary", NoCase, now, MaxAttempts,
                                [window |-> me.window])
        /\ summary' = [summary EXCEPT
                          !.procs[p] = [me EXCEPT !.pc = "idle",
                                                  !.enqueued_job_id = Len(jobs')]]
        /\ UNCHANGED <<cases, audit, now, wk, crashes, failures, returned, resp,
                       applied, call, cleanup, prompts, tables>>

SchedulerNext ==
    \E p \in Schedulers : ClaimInsert(p) \/ ClaimReclaim(p) \/ SummaryEnqueue(p)

SpecScheduler == Init /\ [][SchedulerNext]_vars

\* mark_sent: the compare-and-set from pending to sent, with the event id and
\* the time of the delivery
mark_sent(w, matrix_event_id, sent_at) ==
    LET hit == MarkedRows(summary.rows, w)
    IN  summary' = [summary EXCEPT
            !.rows = [n \in 1..Len(@) |->
                        IF n \in hit
                        THEN [@[n] EXCEPT !.status = "sent", !.sent_at = sent_at,
                                          !.matrix_event_id = matrix_event_id,
                                          !.last_error = FALSE]
                        ELSE @[n]],
            !.marked[w] = IF Cardinality(hit) = 1 THEN @ + 1 ELSE @,
            !.last = [fn |-> "mark_sent", window |-> w,
                      out |-> (Cardinality(hit) = 1)]]

\* some caller marks a window sent: the delivery number stands for the event
\* id and for the time of the delivery
MarkSent ==
    /\ \E w \in Windows, delivery \in 1..MaxMarks :
          mark_sent(w, delivery, delivery)
    /\ UNCHANGED <<jobs, cases, audit, now, wk, crashes, failures, returned, resp,
                   applied, call, cleanup, prompts, tables>>

\* a pending dispatch is set to failed, as the repository test does with an
\* UPDATE of its own (the port has no operation for it)
DispatchFails ==
    /\ \E n \in 1..Len(summary.rows) :
          /\ summary.rows[n].status = "pending"
          /\ Cardinality({k \in 1..Len(summary.rows) :
                              summary.rows[k].last_error}) < MaxDispatchFailures
          /\ summary' = [summary EXCEPT !.rows[n].status = "failed",
                                        !.rows[n].last_error = TRUE]
    /\ UNCHANGED <<jobs, cases, audit, now, wk, crashes, failures, returned, resp,
                   applied, call, cleanup, prompts, tables>>

DispatchNext == SchedulerNext \/ MarkSent \/ DispatchFails

SpecDispatch == Init /\ [][DispatchNext]_vars

-----------------------------------------------------------------------------
(* The prompt template repository: sessions running activate_prompt_version *)
(* and create_prompt_version, each in one transaction whose statements see  *)
(* what is committed when they start, wait for rows another transaction    *)
(* has written, and whose writes show at commit.                           *)

RowsOfPrompt(rows, name) == {n \in 1..Len(rows) : rows[n].name = name}

\* WHERE name = :name AND version = :version
TargetRows(rows, name, version) ==
    {n \in RowsOfPrompt(rows, name) : rows[n].version = version}

\* WHERE name = :name AND is_active IS TRUE
ActiveRows(rows, name) == {n \in RowsOfPrompt(rows, name) : rows[n].is_active}

\* the rows other transactions have written and not committed
LockedByOthers(a) ==
    UNION {prompts.tx[b].off \cup prompts.tx[b].on : b \in Admins \ {a}}

\* the table as a transaction sees it with its own writes
ViewOf(rows, t) ==
    [n \in 1..Len(rows) |->
        IF n \in t.on THEN [rows[n] EXCEPT !.is_active = TRUE]
        ELSE IF n \in t.off THEN [rows[n] EXCEPT !.is_active = FALSE]
        ELSE rows[n]] \o t.ins

\* the same on a table without the index
ActiveIndexMissing(rows) == FALSE

\* at most one active row per name, as an index of the table: a write that
\* would leave two raises IntegrityError
ViolatesActiveIndex(rows) ==
    \E name \in PromptNames : Cardinality(ActiveRows(rows, name)) > 1

\* unique(name, version)
ViolatesVersionKey(rows) ==
    \E n, k \in 1..Len(rows) :
        n # k /\ rows[n].name = rows[k].name /\ rows[n].version = rows[k].version

\* activate_prompt_version, lines 110-127: the transaction opens and selects
\* the target; without one the call returns None
ActivateBegin(a) ==
    LET t == prompts.tx[a]
    IN  /\ t.pc = "idle"
        /\ t.calls < MaxPromptCalls
        /\ \E name \in PromptNames, version \in 1..MaxVersions :
              IF TargetRows(prompts.rows, name, version) = {}
              THEN prompts' = [prompts EXCEPT !.tx[a] =
                                  [NoTx EXCEPT !.op = "activate", !.name = name,
                                               !.version = version,
                                               !.calls = t.calls + 1]]
              ELSE prompts' = [prompts EXCEPT !.tx[a] =
                                  [NoTx EXCEPT !.pc = "scan", !.op = "activate",
                                               !.name = name, !.version = version,
                                               !.calls = t.calls + 1]]
        /\ UNCHANGED <<jobs, cases, audit, now, wk, crashes, failures, returned,
                       resp, applied, call, cleanup, summary, tables>>

\* lines 129-133: the deactivating UPDATE starts and finds the active rows of
\* the name among the committed ones
DeactivateScan(a) ==
    LET t == prompts.tx[a]
    IN  /\ t.pc = "scan"
        /\ prompts' = [prompts EXCEPT
                          !.tx[a].pc = "deactivate",
                          !.tx[a].scan = ActiveRows(prompts.rows, t.name)]
        /\ UNCHANGED <<jobs, cases, audit, now, wk, crashes, failures, returned,
                       resp, applied, call, cleanup, summary, tables>>

\* lines 129-133: the UPDATE writes the rows it found, once no other
\* transaction holds one of them, and only those still active
DeactivateApply(a) ==
    LET t == prompts.tx[a]
    IN  /\ t.pc = "deactivate"
        /\ t.scan \cap LockedByOthers(a) = {}
        /\ prompts' = [prompts EXCEPT
                          !.tx[a].pc = "activate",
                          !.tx[a].off = {n \in t.scan : prompts.rows[n].is_active}]
        /\ UNCHANGED <<jobs, cases, audit, now, wk, crashes, failures, returned,
                       resp, applied, call, cleanup, summary, tables>>

\* lines 134-138: the activating UPDATE of the target; it waits for a
\* transaction that holds the target or has activated a row of the name, and
\* raises when the index refuses the write, which rolls the transaction back
ActivateApply(a) ==
    LET t == prompts.tx[a]
        target == TargetRows(prompts.rows, t.name, t.version)
        mine == [t EXCEPT !.on = target, !.off = @ \ target]
    IN  /\ t.pc = "activate"
        /\ target \cap LockedByOthers(a) = {}
        /\ \A b \in Admins \ {a} :
               \A n \in prompts.tx[b].on : prompts.rows[n].name # t.name
        /\ IF ViolatesActiveIndex(ViewOf(prompts.rows, mine))
           THEN prompts' = [prompts EXCEPT !.tx[a] =
                               [NoTx EXCEPT !.op = t.op, !.name = t.name,
                                            !.version = t.version,
                                            !.result = "error",
                                            !.calls = t.calls]]
           ELSE prompts' = [prompts EXCEPT !.tx[a] = [mine EXCEPT !.pc = "commit"]]
        /\ UNCHANGED <<jobs, cases, audit, now, wk, crashes, failures, returned,
                       resp, applied, call, cleanup, summary, tables>>

\* create_prompt_version, lines 193-213: the transaction opens, selects the
\* source version (None without one) and the next version number of the name
CreateBegin(a) ==
    LET t == prompts.tx[a]
    IN  /\ t.pc = "idle"
        /\ t.calls < MaxPromptCalls
        /\ \E name \in PromptNames, source_version \in 1..MaxVersions :
              LET versions == {prompts.rows[n].version :
                                  n \in RowsOfPrompt(prompts.rows, name)}
                  next_version ==
                      (CHOOSE v \in versions \cup {0} :
                          \A u \in versions : u <= v) + 1
              IN  IF TargetRows(prompts.rows, name, source_version) = {}
                  THEN prompts' = [prompts EXCEPT !.tx[a] =
                                      [NoTx EXCEPT !.op = "create", !.name = name,
                                                   !.version = source_version,
                                                   !.calls = t.calls + 1]]
                  ELSE /\ next_version <= MaxVersions
                       /\ prompts' = [prompts EXCEPT !.tx[a] =
                                      [NoTx EXCEPT !.pc = "insert", !.op = "create",
                                                   !.name = name,
                                                   !.version = next_version,
                                                   !.calls = t.calls + 1]]
        /\ UNCHANGED <<jobs, cases, audit, now, wk, crashes, failures, returned,
                       resp, applied, call, cleanup, summary, tables>>

\* lines 215-226: the INSERT of the new, inactive version; it waits for a
\* transaction that has inserted the same version and raises on a duplicate
CreateInsert(a) ==
    LET t == prompts.tx[a]
        mine == [t EXCEPT !.ins = <<PromptRow(t.name, t.version, FALSE)>>]
    IN  /\ t.pc = "insert"
        /\ \A b \in Admins \ {a} : prompts.tx[b].ins # mine.ins
        /\ IF ViolatesVersionKey(ViewOf(prompts.rows, mine))
           THEN prompts' = [prompts EXCEPT !.tx[a] =
                               [NoTx EXCEPT !.op = t.op, !.name = t.name,
                                            !.version = t.version,
                                            !.result = "error",
                                            !.calls = t.calls]]
           ELSE prompts' = [prompts EXCEPT !.tx[a] = [mine EXCEPT !.pc = "commit"]]
        /\ UNCHANGED <<jobs, cases, audit, now, wk, crashes, failures, returned,
                       resp, applied, call, cleanup, summary, tables>>

\* the end of "async with session.begin()": the writes are committed and the
\* call returns the record of its version
PromptCommit(a) ==
    LET t == prompts.tx[a]
    IN  /\ t.pc = "commit"
        /\ prompts' = [prompts EXCEPT
                          !.rows = ViewOf(prompts.rows, t),
                          !.tx[a] = [NoTx EXCEPT !.op = t.op, !.name = t.name,
                                                 !.version = t.version,
                                                 !.result = "ok",
                                                 !.calls = t.calls]]
        /\ UNCHANGED <<jobs, cases, audit, now, wk, crashes, failures, returned,
                       resp, applied, call, cleanup, summary, tables>>

PromptNext ==
    \E a \in Admins :
        \/ ActivateBegin(a)
        \/ DeactivateScan(a)
        \/ DeactivateApply(a)
        \/ ActivateApply(a)
        \/ CreateBegin(a)
        \/ CreateInsert(a)
        \/ PromptCommit(a)

SpecPrompts == Init /\ [][PromptNext]_vars

-----------------------------------------------------------------------------
(* The policy reconciler on its own: reconcile_eda_policy applied to every *)
(* precheck of LLM1 and every suggestion of LLM2.                          *)

PolicyAlignmentValue == {"yes", "no", "unknown", "not_required"}
PolicyPrecheckValue == {"yes", "no", "unknown"}
SuggestionValue == {"accept", "deny"}

EdaPolicyPrecheckInput ==
    [excluded_from_eda_flow : BOOLEAN,
     indication_category : {"foreign_body", "dyspepsia"},
     labs_required : BOOLEAN, labs_pass : PolicyPrecheckValue,
     ecg_required : BOOLEAN, ecg_present : PolicyPrecheckValue]

Llm2SuggestionInput ==
    [suggestion : SuggestionValue, excluded_request : BOOLEAN,
     labs_ok : PolicyAlignmentValue, ecg_ok : PolicyAlignmentValue,
     pediatric_flag : BOOLEAN, notes : {"None", "labs pendentes"}]

_map_required_alignment(value) == IF value = "no" THEN "no" ELSE "unknown"

\* set_field without its early return: every rule applied is recorded
SetFieldAlways(contradictions, rule, field, previous, updated) ==
    Append(contradictions, [rule |-> rule, field |-> field,
                            previous_value |-> previous,
                            reconciled_value |-> updated])

\* set_field: a contradiction is added when the value changes
set_field(contradictions, rule, field, previous, updated) ==
    IF previous = updated THEN contradictions
    ELSE Append(contradictions, [rule |-> rule, field |-> field,
                                 previous_value |-> previous,
                                 reconciled_value |-> updated])

\* lines 90-105
ExcludedRule(precheck, r) ==
    IF precheck.excluded_from_eda_flow
    THEN [r EXCEPT
            !.suggestion = "deny",
            !.excluded_request = TRUE,
            !.contradictions =
                set_field(set_field(@, "excluded_request_forces_deny", "suggestion",
                                    r.suggestion, "deny"),
                          "excluded_request_forces_alignment",
                          "policy_alignment.excluded_request",
                          r.excluded_request, TRUE)]
    ELSE r

\* lines 107-122
ForeignBodyRule(r) ==
    [r EXCEPT
        !.labs_ok = "not_required",
        !.ecg_ok = "not_required",
        !.contradictions =
            set_field(set_field(@, "foreign_body_overrides_labs",
                                "policy_alignment.labs_ok", r.labs_ok, "not_required"),
                      "foreign_body_overrides_ecg", "policy_alignment.ecg_ok",
                      r.ecg_ok, "not_required")]

\* lines 124-140
RequiredLabsRule(precheck, r) ==
    IF precheck.labs_required /\ precheck.labs_pass # "yes"
    THEN LET target_labs == _map_required_alignment(precheck.labs_pass)
         IN  [r EXCEPT
                !.labs_ok = target_labs,
                !.suggestion = "deny",
                !.contradictions =
                    set_field(set_field(@, "required_labs_must_align",
                                        "policy_alignment.labs_ok", r.labs_ok,
                                        target_labs),
                              "required_labs_missing_or_failed_forces_deny",
                              "suggestion", r.suggestion, "deny")]
    ELSE r

\* a required-ECG rule that aligns ecg_ok and leaves the suggestion alone
EcgRuleWithoutDeny(precheck, r) ==
    IF precheck.ecg_required /\ precheck.ecg_present # "yes"
    THEN LET target_ecg == _map_required_alignment(precheck.ecg_present)
         IN  [r EXCEPT
                !.ecg_ok = target_ecg,
                !.contradictions =
                    set_field(@, "required_ecg_must_align",
                              "policy_alignment.ecg_ok", r.ecg_ok, target_ecg)]
    ELSE r

\* lines 142-158
RequiredEcgRule(precheck, r) ==
    IF precheck.ecg_required /\ precheck.ecg_present # "yes"
    THEN LET target_ecg == _map_required_alignment(precheck.ecg_present)
         IN  [r EXCEPT
                !.ecg_ok = target_ecg,
                !.suggestion = "deny",
                !.contradictions =
                    set_field(set_field(@, "required_ecg_must_align",
                                        "policy_alignment.ecg_ok", r.ecg_ok,
                                        target_ecg),
                              "required_ecg_missing_forces_deny",
                              "suggestion", r.suggestion, "deny")]
    ELSE r

reconcile_eda_policy(precheck, llm2) ==
    LET start == [suggestion |-> llm2.suggestion,
                  excluded_request |-> llm2.excluded_request,
                  labs_ok |-> llm2.labs_ok, ecg_ok |-> llm2.ecg_ok,
                  pediatric_flag |-> llm2.pediatric_flag,
                  notes |-> llm2.notes,
                  contradictions |-> <<>>]
        first == ExcludedRule(precheck, start)
    IN  IF precheck.indication_category = "foreign_body"
        THEN ForeignBodyRule(first)
        ELSE RequiredEcgRule(precheck, RequiredLabsRule(precheck, first))

PolicyCall ==
    /\ call = NoCall
    /\ \E precheck \in EdaPolicyPrecheckInput, llm2 \in Llm2SuggestionInput :
          call' = [fn |-> "reconcile_eda_policy",
                   arg |-> [precheck |-> precheck, llm2 |-> llm2],
                   out |-> reconcile_eda_policy(precheck, llm2)]
    /\ UNCHANGED <<jobs, cases, audit, now, wk, crashes, failures, returned, resp,
                   applied, cleanup, summary, prompts, tables>>

SpecPolicy == Init /\ [][PolicyCall]_vars

-----------------------------------------------------------------------------
(* The record-number extractor on its own. A report text is a sequence of  *)
(* lines, a line a sequence of tokens: the report header phrase, the code  *)
(* label, a word, a 7-digit number and a 5-digit number.                   *)

ReportTokens == {"header", "label", "word", "4775652", "63625"}
DigitTokens == {"4775652", "63625"}         \* [0-9]{5,}
FiveDigitTokens == {"63625"}                \* \d{5}

ReportLines ==
    UNION {[1..k -> ReportTokens] : k \in 0..MaxLineTokens}
        \cup {[i \in 1..4 |-> d] : d \in FiveDigitTokens}

ReportTexts == UNION {[1..n -> ReportLines] : n \in 1..MaxLines}

\* the text as one run of tokens: the patterns take a line break for white
\* space
RECURSIVE Flat(_)
Flat(lines) == IF lines = <<>> THEN <<>> ELSE Head(lines) \o Flat(Tail(lines))

\* _CODE_LABEL_PATTERN and _REPORT_HEADER_FLOW_PATTERN: the number right after
\* the label, and the first number after a header
IsCode(f, p) ==
    /\ f[p] \in DigitTokens
    /\ \/ p > 1 /\ f[p - 1] = "label"
       \/ \E h \in 1..(p - 1) :
             /\ f[h] = "header"
             /\ \A q \in (h + 1)..(p - 1) : f[q] \notin DigitTokens

RECURSIVE CodesFrom(_, _)
CodesFrom(f, p) ==
    IF p > Len(f) THEN <<>>
    ELSE IF IsCode(f, p) THEN <<f[p]>> \o CodesFrom(f, p + 1)
    ELSE CodesFrom(f, p + 1)

\* the codes in document order
extract_patient_registration_codes(text) == CodesFrom(Flat(text), 1)

\* str(time.time_ns() // 1_000_000) at the time of the call
_current_epoch_millis(t) ==
    <<"1735689600123", "1735689600124", "1735689600125", "1735689600126",
      "1735689600127", "1735689600128">>[t]

\* re.sub(rf"\b{token}\b", " ", text)
RemoveToken(lines, token) ==
    LET Keep(x) == x # token
    IN  [n \in 1..Len(lines) |-> SelectSeq(lines[n], Keep)]

\* _REPEATED_FIVE_DIGIT_LINE_PATTERN: one 5-digit number four times or more
IsWatermarkLine(line) ==
    /\ Len(line) >= 4
    /\ line[1] \in FiveDigitTokens
    /\ \A i \in 1..Len(line) : line[i] = line[1]

RECURSIVE RemoveTokens(_, _)
RemoveTokens(lines, tokens) ==
    IF tokens = {} THEN lines
    ELSE LET token == CHOOSE x \in tokens : TRUE
         IN  RemoveTokens(RemoveToken(lines, token), tokens \ {token})

_strip_repeated_five_digit_watermarks(lines, protected_token) ==
    LET candidate_tokens ==
            {lines[n][1] : n \in {k \in 1..Len(lines) : IsWatermarkLine(lines[k])}}
                \ {protected_token}
        Stays(line) == ~(IsWatermarkLine(line) /\ line[1] \in candidate_tokens)
    IN  IF candidate_tokens = {} THEN lines
        ELSE RemoveTokens(SelectSeq(lines, Stays), candidate_tokens)

\* the loop of _normalize_preserving_linebreaks: an empty line is kept only
\* after a line that is not empty
RECURSIVE NormalizedLines(_, _)
NormalizedLines(lines, done) ==
    IF lines = <<>> THEN done
    ELSE IF Head(lines) = <<>>
         THEN IF done # <<>> /\ done[Len(done)] # <<>>
              THEN NormalizedLines(Tail(lines), Append(done, <<>>))
              ELSE NormalizedLines(Tail(lines), done)
         ELSE NormalizedLines(Tail(lines), Append(done, Head(lines)))

\* "\n".join(...).strip(): the empty line at the end goes
_normalize_preserving_linebreaks(lines) ==
    LET done == NormalizedLines(lines, <<>>)
    IN  IF done # <<>> /\ done[Len(done)] = <<>>
        THEN SubSeq(done, 1, Len(done) - 1) ELSE done

\* called at time t
extract_and_strip_agency_record_number(text, t) ==
    LET explicit_codes == extract_patient_registration_codes(text)
        selected == IF explicit_codes # <<>> THEN explicit_codes[1]
                    ELSE _current_epoch_millis(t)
        cleaned_text == _strip_repeated_five_digit_watermarks(
                            RemoveToken(text, selected), selected)
    IN  [agency_record_number |-> selected,
         cleaned_text |-> _normalize_preserving_linebreaks(cleaned_text)]

\* the first run of a job extracts from its report text
ExtractCall ==
    /\ call = NoCall
    /\ \E text \in ReportTexts, t \in 1..MaxEpoch :
          call' = [fn |-> "extract_and_strip_agency_record_number",
                   arg |-> text, at |-> t,
                   out |-> extract_and_strip_agency_record_number(text, t),
                   retries |-> 0,
                   again |-> extract_and_strip_agency_record_number(text, t)]
    /\ UNCHANGED <<jobs, cases, audit, now, wk, crashes, failures, returned, resp,
                   applied, cleanup, summary, prompts, tables>>

\* a retry of the job extracts from the same text at a later time
ExtractRetry ==
    /\ call.fn = "extract_and_strip_agency_record_number"
    /\ call.retries = 0
    /\ \E t \in (call.at + 1)..(MaxEpoch + 1) :
          call' = [call EXCEPT
                      !.retries = 1,
                      !.again = extract_and_strip_agency_record_number(call.arg, t)]
    /\ UNCHANGED <<jobs, cases, audit, now, wk, crashes, failures, returned, resp,
                   applied, cleanup, summary, prompts, tables>>

SpecExtract == Init /\ [][ExtractCall \/ ExtractRetry]_vars

-----------------------------------------------------------------------------
(* The retry backoff on its own: one call with any attempt number, and the *)
(* same call made once more later.                                         *)

\* if attempt < 1: raise ValueError("attempt must be >= 1")
compute_retry_delay_raises(attempt) == attempt < 1

BackoffResult(attempt) ==
    IF compute_retry_delay_raises(attempt)
    THEN [raised |-> TRUE, seconds |-> None]
    ELSE [raised |-> FALSE, seconds |-> compute_retry_delay(attempt)]

BackoffCall ==
    /\ call = NoCall
    /\ \E attempt \in (0 - MaxBackoffAttempt)..MaxBackoffAttempt :
          call' = [fn |-> "compute_retry_delay", arg |-> attempt,
                   out |-> BackoffResult(attempt), retries |-> 0,
                   again |-> BackoffResult(attempt)]
    /\ UNCHANGED <<jobs, cases, audit, now, wk, crashes, failures, returned, resp,
                   applied, cleanup, summary, prompts, tables>>

\* the clock moves on and the delay of the same attempt is computed again
BackoffAgain ==
    /\ call.fn = "compute_retry_delay"
    /\ call.retries = 0
    /\ now < MaxClock
    /\ now' = now + 1
    /\ call' = [call EXCEPT !.retries = 1, !.again = BackoffResult(call.arg)]
    /\ UNCHANGED <<jobs, cases, audit, wk, crashes, failures, returned, resp,
                   applied, cleanup, summary, prompts, tables>>

SpecBackoff == Init /\ [][BackoffCall \/ BackoffAgain]_vars

-----------------------------------------------------------------------------
(* One run of Llm2Service.run. The LLM answers with any of a few responses: *)
(* a text that is no JSON object, an object that fails the schema, or a     *)
(* valid Llm2Response, known by its case_id, its agency_record_number, its  *)
(* suggestion and the words of its narrative fields.                        *)

\* str(case_id) of the two case UUIDs
str_case_id(case_id) == <<"0d9c-01", "0d9c-02">>[case_id]

AgencyRecordNumbers == {"12345", "54321"}

\* _FORBIDDEN_ENGLISH_TERMS_PATTERN, as far as the words below meet it
ForbiddenTerms == {"denied", "patient"}

NarrativeWords == {"Negado", "Denied", "patient"}

\* match.group(0).lower()
Lower(word) == IF word = "Denied" THEN "denied" ELSE IF word = "Negado" THEN "negado" ELSE word

collect_forbidden_terms(texts) == {Lower(word) : word \in texts} \cap ForbiddenTerms

Narratives == {{}, {"Negado"}, {"Denied"}, {"Negado", "patient"}}

LlmResponse(shape, case_id, agency_record_number, suggestion, narrative) ==
    [shape |-> shape, case_id |-> case_id,
     agency_record_number |-> agency_record_number, suggestion |-> suggestion,
     narrative |-> narrative]

LlmResponses ==
    {LlmResponse(shape, "", "", "", {}) : shape \in {"text", "object"}}
        \cup {LlmResponse("Llm2Response", c, a, s, n) :
                 c \in {"0d9c-01", "0d9c-02", "0D9C-01"}, a \in AgencyRecordNumbers,
                 s \in SuggestionValue, n \in Narratives}

\* the policy_precheck and eda.indication_category of a valid LLM1 payload
Llm1Prechecks ==
    {[excluded_from_eda_flow |-> e, indication_category |-> "dyspepsia",
      labs_required |-> TRUE, labs_pass |-> "yes", ecg_required |-> TRUE,
      ecg_present |-> p] : e \in BOOLEAN, p \in {"yes", "unknown"}}

Llm2RetriableError(details) == [cause |-> "llm2", details |-> details]

NoLlm2Error == [cause |-> "", details |-> ""]

NoLlm2Result == [case_id |-> "", agency_record_number |-> "", suggestion |-> "",
                 ecg_ok |-> "", narrative |-> {}, contradictions |-> <<>>]

\* a run that accepts whatever identity the response carries
IdentityUnchecked(validated, case_id, agency_record_number) == ""

\* lines 126-136: the two identity checks of run, in their order
IdentityMismatch(validated, case_id, agency_record_number) ==
    IF validated.case_id # str_case_id(case_id) THEN "LLM2 case_id mismatch"
    ELSE IF validated.agency_record_number # agency_record_number
         THEN "LLM2 agency_record_number mismatch"
         ELSE ""

\* lines 138-187: the reconciled artifact returned for persistence
Llm2ServiceResult(validated, precheck) ==
    LET policy_result ==
            reconcile_eda_policy(precheck,
                [suggestion |-> validated.suggestion, excluded_request |-> FALSE,
                 labs_ok |-> "yes", ecg_ok |-> "yes", pediatric_flag |-> FALSE,
                 notes |-> "None"])
    IN  [case_id |-> validated.case_id,
         agency_record_number |-> validated.agency_record_number,
         suggestion |-> policy_result.suggestion,
         ecg_ok |-> policy_result.ecg_ok,
         narrative |-> validated.narrative,
         contradictions |-> policy_result.contradictions]

\* run up to its await of llm_client.complete: the LLM1 payload is validated
\* and the prompts are loaded
Llm2RunStart ==
    /\ call = NoCall
    /\ \E case_id \in 1..2, agency_record_number \in AgencyRecordNumbers,
          llm1_valid \in BOOLEAN, precheck \in Llm1Prechecks,
          prompt_pair \in {"default", "active", "missing"} :
          LET arg == [case_id |-> case_id,
                      agency_record_number |-> agency_record_number,
                      llm1_valid |-> llm1_valid, precheck |-> precheck,
                      prompt_pair |-> prompt_pair]
              run == [fn |-> "Llm2Service.run", arg |-> arg, out |-> NoLlm2Result,
                      pc |-> "complete", responses |-> <<>>, error |-> NoLlm2Error]
          IN  call' =
                IF ~llm1_valid
                THEN [run EXCEPT !.pc = "raised",
                         !.error = Llm2RetriableError("LLM1 payload invalid for LLM2 input")]
                ELSE IF prompt_pair = "missing"
                THEN [run EXCEPT !.pc = "raised",
                         !.error = Llm2RetriableError("missing active prompt")]
                ELSE run
    /\ UNCHANGED <<jobs, cases, audit, now, wk, crashes, failures, returned, resp,
                   applied, cleanup, summary, prompts, tables>>

\* llm_client.complete returns and run goes on to its end: decode, validate,
\* compare the identity, reconcile, return
Llm2Complete ==
    /\ call.fn = "Llm2Service.run"
    /\ call.pc = "complete"
    /\ \E raw_response \in LlmResponses :
          LET seen == [call EXCEPT !.responses = Append(@, raw_response)]
              mismatch == IdentityMismatch(raw_response, call.arg.case_id,
                                           call.arg.agency_record_number)
          IN  call' =
                IF raw_response.shape = "text"
                THEN [seen EXCEPT !.pc = "raised",
                         !.error = Llm2RetriableError("LLM2 returned non-JSON payload")]
                ELSE IF raw_response.shape = "object"
                THEN [seen EXCEPT !.pc = "raised",
                         !.error = Llm2RetriableError("LLM2 schema validation failed")]
                ELSE IF mismatch # ""
                THEN [seen EXCEPT !.pc = "raised",
                         !.error = Llm2RetriableError(mismatch)]
                ELSE [seen EXCEPT !.pc = "returned",
                         !.out = Llm2ServiceResult(raw_response, call.arg.precheck)]
    /\ UNCHANGED <<jobs, cases, audit, now, wk, crashes, failures, returned, resp,
                   applied, cleanup, summary, prompts, tables>>

SpecLlm2 == Init /\ [][Llm2RunStart \/ Llm2Complete]_vars



-----------------------------------------------------------------------------
(* resolve_previous_summary_window on its own. Times are minutes; minute 0  *)
(* is 2026-02-14T00:00Z, so 2026-02-16T22:00Z is minute 2 * 1440 + 22 * 60. *)
(* A time zone is known by its offset from UTC (none of the three has a     *)
(* daylight-saving change in the days modelled).                            *)

MinutesPerDay == 1440

TimezoneNames == {"America/Bahia", "UTC", "Asia/Kolkata"}

\* ZoneInfo(timezone_name): the offset of local time from UTC, in minutes
utcoffset(timezone_name) ==
    CASE timezone_name = "America/Bahia" -> 0 - 180
      [] timezone_name = "Asia/Kolkata" -> 330
      [] OTHER -> 0

\* run_at_utc.astimezone(timezone)
astimezone_local(at_utc, timezone_name) == at_utc + utcoffset(timezone_name)

\* local.astimezone(UTC)
astimezone_utc(at_local, timezone_name) == at_local - utcoffset(timezone_name)

\* (run_at_local + timedelta(days=day_offset)).date(), as a day number
date(at_local, day_offset) == (at_local + day_offset * MinutesPerDay) \div MinutesPerDay

\* the four candidates: morning and evening cutoff of yesterday and of today
Candidates(run_at_local, morning_hour, evening_hour) ==
    {date(run_at_local, day_offset) * MinutesPerDay + hour * 60 :
        day_offset \in {0 - 1, 0}, hour \in {morning_hour, evening_hour}}

\* candidates strictly before the run time
EligibleBefore(candidates, run_at_local) ==
    {candidate \in candidates : candidate < run_at_local}

\* eligible = [candidate for candidate in candidates if candidate <= run_at_local]
Eligible(candidates, run_at_local) ==
    {candidate \in candidates : candidate <= run_at_local}

Max(S) == CHOOSE x \in S : \A y \in S : y <= x

resolve_previous_summary_window(run_at_utc, timezone_name, morning_hour, evening_hour) ==
    LET run_at_local == astimezone_local(run_at_utc, timezone_name)
        eligible == Eligible(Candidates(run_at_local, morning_hour, evening_hour),
                             run_at_local)
    IN  IF eligible = {}
        THEN [raised |-> TRUE, window_start_local |-> 0, window_end_local |-> 0,
              window_start_utc |-> 0, window_end_utc |-> 0]
        ELSE LET window_end_local == Max(eligible)
                 window_start_local == window_end_local - 12 * 60
             IN  [raised |-> FALSE,
                  window_start_local |-> window_start_local,
                  window_end_local |-> window_end_local,
                  window_start_utc |-> astimezone_utc(window_start_local, timezone_name),
                  window_end_utc |-> astimezone_utc(window_end_local, timezone_name)]

\* the run times tried: each hour of the days 1..MaxRunDay, on the hour, one
\* minute after it and one minute before the next
RunTimes ==
    {day * MinutesPerDay + hour * 60 + minute :
        day \in 1..MaxRunDay, hour \in 0..23, minute \in {0, 1, 59}}

WindowCall ==
    /\ call = NoCall
    /\ \E run_at_utc \in RunTimes, timezone_name \in TimezoneNames,
          morning_hour \in {0, 7}, evening_hour \in {12, 19, 23} :
          call' = [fn |-> "resolve_previous_summary_window",
                   arg |-> [run_at_utc |-> run_at_utc,
                            timezone_name |-> timezone_name,
                            morning_hour |-> morning_hour,
                            evening_hour |-> evening_hour],
                   out |-> resolve_previous_summary_window(
                               run_at_utc, timezone_name, morning_hour,
                               evening_hour)]
    /\ UNCHANGED <<jobs, cases, audit, now, wk, crashes, failures, returned, resp,
                   applied, cleanup, summary, prompts, tables>>

SpecWindow == Init /\ [][WindowCall]_vars

-----------------------------------------------------------------------------
(* create_case under concurrent callers. A creation is one transaction: the *)
(* INSERT with its check of the unique index on the Room-1 origin           *)
(* (room_id, event_id), which waits for a concurrent uncommitted insert of  *)
(* the same key, then the commit.                                           *)

OriginRows(room_id, event_id) ==
    {i \in 1..Len(tables.origins) :
        /\ tables.origins[i].room1_origin_room_id = room_id
        /\ tables.origins[i].room1_origin_event_id = event_id}

\* a cases table without the unique index on the origin
OriginIndexMissing(room_id, event_id) == FALSE

\* the unique index: a committed row with the same origin exists
ViolatesOriginKey(room_id, event_id) ==
    \E i \in OriginRows(room_id, event_id) : tables.origins[i].committed

\* another transaction has inserted the same origin and not yet committed
OriginInsertPending(p, room_id, event_id) ==
    \E i \in OriginRows(room_id, event_id) :
        ~tables.origins[i].committed /\ tables.origins[i].by # p

CaseRow(p, room_id, event_id) ==
    [case_id |-> Len(tables.origins) + 1, status |-> "NEW",
     room1_origin_room_id |-> room_id, room1_origin_event_id |-> event_id,
     committed |-> FALSE, by |-> p]

\* the INSERT of create_case by a caller whose record is creator:
\* DuplicateCaseOriginEventError on a duplicate key, a wait behind a pending
\* insert of the same key, the new row otherwise
InsertCase(p, creator) ==
    IF ViolatesOriginKey(creator.room_id, creator.event_id)
    THEN [tables EXCEPT
             !.creators[p] = [creator EXCEPT !.pc = "idle",
                                 !.result = "DuplicateCaseOriginEventError"]]
    ELSE IF OriginInsertPending(p, creator.room_id, creator.event_id)
    THEN [tables EXCEPT !.creators[p] = [creator EXCEPT !.pc = "wait",
                                                        !.waited = TRUE]]
    ELSE [tables EXCEPT
             !.origins = Append(@, CaseRow(p, creator.room_id, creator.event_id)),
             !.creators[p] = [creator EXCEPT !.pc = "inserted"]]

CreateCaseBegin(p) ==
    /\ tables.creators[p].pc = "idle"
    /\ tables.creators[p].calls < MaxCreateCalls
    /\ \E room_id \in 1..NumRooms, event_id \in 1..NumEvents :
          tables' = InsertCase(p, [tables.creators[p] EXCEPT
                                      !.room_id = room_id, !.event_id = event_id,
                                      !.result = "none", !.waited = FALSE,
                                      !.calls = @ + 1])
    /\ UNCHANGED <<jobs, cases, audit, now, wk, crashes, failures, returned, resp,
                   applied, call, cleanup, summary, prompts>>

\* the transaction ahead has ended: the INSERT is checked again
CreateCaseWaitEnds(p) ==
    /\ tables.creators[p].pc = "wait"
    /\ ~OriginInsertPending(p, tables.creators[p].room_id,
                            tables.creators[p].event_id)
    /\ tables' = InsertCase(p, tables.creators[p])
    /\ UNCHANGED <<jobs, cases, audit, now, wk, crashes, failures, returned, resp,
                   applied, call, cleanup, summary, prompts>>

\* commit: the row is visible to all and create_case returns its CaseRecord
CreateCaseCommit(p) ==
    /\ tables.creators[p].pc = "inserted"
    /\ tables' = [tables EXCEPT
                     !.origins = [i \in 1..Len(@) |->
                                     IF @[i].by = p THEN [@[i] EXCEPT !.committed = TRUE]
                                     ELSE @[i]],
                     !.creators[p].pc = "idle",
                     !.creators[p].result = "CaseRecord"]
    /\ UNCHANGED <<jobs, cases, audit, now, wk, crashes, failures, returned, resp,
                   applied, call, cleanup, summary, prompts>>

\* the session is lost before the commit: the row is rolled back
CreateCaseAbort(p) ==
    /\ tables.creators[p].pc = "inserted"
    /\ tables' = [tables EXCEPT
                     !.origins = SelectSeq(@, LAMBDA row : row.committed \/ row.by # p),
                     !.creators[p].pc = "idle",
                     !.creators[p].result = "rolled back"]
    /\ UNCHANGED <<jobs, cases, audit, now, wk, crashes, failures, returned, resp,
                   applied, call, cleanup, summary, prompts>>

CreateCaseNext ==
    \E p \in Creators :
        \/ CreateCaseBegin(p)
        \/ CreateCaseWaitEnds(p)
        \/ CreateCaseCommit(p)
        \/ CreateCaseAbort(p)

SpecCreateCase == Init /\ [][CreateCaseNext]_vars

-----------------------------------------------------------------------------
(* The transcript tables and migration 0010. A row is known by its case_id  *)
(* and its captured_at; a statement names a table and the case_id of its    *)
(* WHERE clause. BEFORE triggers fire for each row the statement matches,   *)
(* before the row is changed, so a statement that matches no row runs       *)
(* through without touching anything.                                       *)

Dialects == {"sqlite", "postgresql", "mysql"}

\* upgrade(): the guards are created on sqlite and postgresql, any other
\* dialect raises RuntimeError
TranscriptUpgrade ==
    /\ tables.migration = "pending"
    /\ \E dialect_name \in Dialects :
          tables' = IF dialect_name \in {"sqlite", "postgresql"}
                    THEN [tables EXCEPT !.migration = "head",
                                        !.guarded = _TRANSCRIPT_TABLES]
                    ELSE [tables EXCEPT !.migration = "failed"]
    /\ UNCHANGED <<jobs, cases, audit, now, wk, crashes, failures, returned, resp,
                   applied, call, cleanup, summary, prompts>>

Matched(rows, case_id) == {i \in 1..Len(rows) : rows[i].case_id = case_id}

\* trg_<table>_append_only_update / _delete, fn_<table>_append_only_guard:
\* the statement fails at the first row it is about to change
GuardRaises(table, rows, case_id) ==
    table \in tables.guarded /\ Matched(rows, case_id) # {}

StatementDone(op, table, case_id, failed, after) ==
    [tables EXCEPT
        !.transcripts[table] = after,
        !.statements = @ + 1,
        !.last = [op |-> op, table |-> table,
                  matched |-> Cardinality(Matched(tables.transcripts[table], case_id)),
                  failed |-> failed, at_head |-> tables.migration = "head",
                  before |-> tables.transcripts[table], after |-> after]]

TranscriptInsert ==
    /\ tables.statements < MaxStatements
    /\ \E table \in TranscriptTables, case_id \in 1..2, captured_at \in 1..2 :
          /\ Len(tables.transcripts[table]) < MaxTranscriptRows
          /\ tables' = StatementDone("insert", table, case_id, FALSE,
                           Append(tables.transcripts[table],
                                  [case_id |-> case_id, captured_at |-> captured_at]))
    /\ UNCHANGED <<jobs, cases, audit, now, wk, crashes, failures, returned, resp,
                   applied, call, cleanup, summary, prompts>>

\* UPDATE <table> SET captured_at = ... WHERE case_id = ...
TranscriptUpdate ==
    /\ tables.statements < MaxStatements
    /\ \E table \in TranscriptTables, case_id \in 1..2, captured_at \in 1..2 :
          LET rows == tables.transcripts[table]
          IN  tables' =
                IF GuardRaises(table, rows, case_id)
                THEN StatementDone("update", table, case_id, TRUE, rows)
                ELSE StatementDone("update", table, case_id, FALSE,
                         [i \in 1..Len(rows) |->
                             IF rows[i].case_id = case_id
                             THEN [rows[i] EXCEPT !.captured_at = captured_at]
                             ELSE rows[i]])
    /\ UNCHANGED <<jobs, cases, audit, now, wk, crashes, failures, returned, resp,
                   applied, call, cleanup, summary, prompts>>

\* DELETE FROM <table> WHERE case_id = ...
TranscriptDelete ==
    /\ tables.statements < MaxStatements
    /\ \E table \in TranscriptTables, case_id \in 1..2 :
          LET rows == tables.transcripts[table]
          IN  tables' =
                IF GuardRaises(table, rows, case_id)
                THEN StatementDone("delete", table, case_id, TRUE, rows)
                ELSE StatementDone("delete", table, case_id, FALSE,
                         SelectSeq(rows, LAMBDA row : row.case_id # case_id))
    /\ UNCHANGED <<jobs, cases, audit, now, wk, crashes, failures, returned, resp,
                   applied, call, cleanup, summary, prompts>>

SpecTranscripts ==
    Init /\ [][TranscriptUpgrade \/ TranscriptInsert \/ TranscriptUpdate
                  \/ TranscriptDelete]_vars



-----------------------------------------------------------------------------
(* The worker with a job no handler is registered for: some producer has   *)
(* enqueued a job of type "unknown-type", for a case or for none.          *)

UnknownJobs == {i \in 1..Len(jobs) : jobs[i].job_type \notin HandlerTypes}

UnknownTypeEnqueued ==
    /\ Cardinality(UnknownJobs) < MaxUnknownJobs
    /\ Len(jobs) < MaxJobs
    /\ \E case_id \in Cases \cup {NoCase} :
          jobs' = enqueue(jobs, "unknown-type", case_id, now, MaxAttempts)
    /\ UNCHANGED <<cases, audit, now, wk, crashes, failures, returned, resp, applied,
                 components>>

\* run_once: no handler for the job type, the job fails with
\* "Unknown job type: <type>"
UnknownTypeRaises(w) ==
    /\ wk[w].pc = "run"
    /\ Head(wk[w].batch).job_type \notin HandlerTypes
    /\ wk' = [wk EXCEPT ![w].pc = "err"]
    /\ UNCHANGED <<jobs, cases, audit, now, crashes, failures, returned, resp, applied,
                 components>>

\* the workers with handlers that do not fail and processes that do not die
UnknownTypeNext ==
    \/ UnknownTypeEnqueued
    \/ \E w \in Workers :
          \/ WorkerStart(w)
          \/ RecoverList(w)
          \/ RecoverSkip(w)
          \/ RecoverCheck(w)
          \/ RecoverEnqueue(w)
          \/ RecoverAudit(w)
          \/ RecoverDone(w)
          \/ WorkerClaim(w)
          \/ HandlerReturns(w)
          \/ CleanupReturns(w)
          \/ UnknownTypeRaises(w)
          \/ WorkerMarkDone(w)
          \/ WorkerRetry(w)
          \/ WorkerDead(w)
          \/ FinalizeStatus(w)
          \/ FinalizeAudit(w)
          \/ FinalizeEnqueue(w)
    \/ Tick

SpecUnknownType == Init /\ [][UnknownTypeNext]_vars





-----------------------------------------------------------------------------
(* The failure categorizer on its own: _categorize_failure applied to      *)
(* every text that names any of the cause words.                           *)

\* a text in which "record_extract" occurs has "extract" in it as well
WordsInText ==
    {has \in SUBSET {CauseWords[k] : k \in 1..Len(CauseWords)} :
        "record_extract" \in has => "extract" \in has}

CauseTexts ==
    {NoError} \cup {Text(len, has) : len \in {14, DetailsLimit}, has \in WordsInText}

CategorizeCall ==
    /\ call = NoCall
    /\ \E last_error \in CauseTexts :
          call' = [fn |-> "_categorize_failure", arg |-> last_error,
                   out |-> _categorize_failure(last_error)]
    /\ UNCHANGED <<jobs, cases, audit, now, wk, crashes, failures, returned, resp,
                   applied, cleanup, summary, prompts, tables>>

\* the clock moves on after the call
CategorizeTick ==
    /\ call # NoCall
    /\ now < MaxClock
    /\ now' = now + 1
    /\ UNCHANGED <<jobs, cases, audit, wk, crashes, failures, returned, resp,
                   applied, call, cleanup, summary, prompts, tables>>

SpecCategorize == Init /\ [][CategorizeCall \/ CategorizeTick]_vars



-----------------------------------------------------------------------------
(* The failure chain: the worker loop with a Room-1 failure reply that     *)
(* cannot be posted (room gone, chat server refusing), so that every       *)
(* post_room1_final_failure job raises on each of its attempts.            *)

\* the handler of a post_room1_final_failure job raises
FailureReplyRaises(w) ==
    /\ wk[w].pc = "run"
    /\ Head(wk[w].batch).job_type = "post_room1_final_failure"
    /\ wk' = [wk EXCEPT ![w].pc = "err"]
    /\ UNCHANGED <<jobs, cases, audit, now, crashes, failures, returned, resp, applied,
                 components>>

\* workers whose processes do not die; other handlers fail as in Spec
FailureChainNext ==
    \/ \E w \in Workers :
          \/ WorkerStart(w)
          \/ RecoverList(w)
          \/ RecoverSkip(w)
          \/ RecoverCheck(w)
          \/ RecoverEnqueue(w)
          \/ RecoverAudit(w)
          \/ RecoverDone(w)
          \/ WorkerClaim(w)
          \/ HandlerReturns(w)
          \/ CleanupReturns(w)
          \/ HandlerRaises(w)
          \/ FailureReplyRaises(w)
          \/ WorkerMarkDone(w)
          \/ WorkerRetry(w)
          \/ WorkerDead(w)
          \/ FinalizeStatus(w)
          \/ FinalizeAudit(w)
          \/ FinalizeEnqueue(w)
    \/ Tick

SpecFailureChain == Init /\ [][FailureChainNext]_vars

-----------------------------------------------------------------------------
(* The summary scheduler beside the workers: the jobs the scheduler        *)
(* enqueues are polled by workers that run with the handler map of         *)
(* build_worker_handlers, handlers that do not fail and processes that do  *)
(* not die. One worker process is enough to see what becomes of the jobs.  *)

FirstWorker == CHOOSE w \in Workers : \A v \in Workers : w <= v

SummaryJobNext ==
    \/ SchedulerNext
    \/ \E w \in {FirstWorker} :
          \/ WorkerStart(w)
          \/ RecoverList(w)
          \/ RecoverSkip(w)
          \/ RecoverDone(w)
          \/ WorkerClaim(w)
          \/ HandlerReturns(w)
          \/ CleanupReturns(w)
          \/ UnknownTypeRaises(w)
          \/ WorkerMarkDone(w)
          \/ WorkerRetry(w)
          \/ WorkerDead(w)
          \/ FinalizeStatus(w)
    \/ Tick

SpecSummaryJob == Init /\ [][SummaryJobNext]_vars

-----------------------------------------------------------------------------
(* The scheduler with a call that ends between its two steps: claim_window *)
(* has committed, and the enqueue raises or the process stops before it.   *)

\* enqueue_previous_window_summary ends after line 78 without a job: the
\* enqueue of lines 92-98 raises, or the process is stopped
SchedulerStops(p) ==
    LET me == summary.procs[p]
    IN  /\ me.pc = "enqueue"
        /\ summary' = [summary EXCEPT !.procs[p] = [me EXCEPT !.pc = "idle"]]
        /\ UNCHANGED <<jobs, cases, audit, now, wk, crashes, failures, returned,
                       resp, applied, call, cleanup, prompts, tables>>

SchedulerStopsNext ==
    SchedulerNext \/ \E p \in Schedulers : SchedulerStops(p)

SpecSchedulerStops == Init /\ [][SchedulerStopsNext]_vars





-----------------------------------------------------------------------------
(* The record number from the extractor to the LLM schemas: the number     *)
(* extract_and_strip_agency_record_number stores on the case is echoed by  *)
(* an LLM response, and the response's agency_record_number field is       *)
(* validated by Llm1Response and by Llm2Response.                          *)

\* Field(pattern=r"^[0-9]{5}$") on a string of digits
FiveDigitPattern(value) == Len(value) = 5

\* model_validate of a response that echoes the stored number, every other
\* field being valid
EchoValidate ==
    /\ call.fn = "extract_and_strip_agency_record_number"
    /\ call' = [fn |-> "model_validate", arg |-> call.out.agency_record_number,
                text |-> call.arg,
                out |-> [Llm1Response |-> FiveDigitPattern(call.out.agency_record_number),
                         Llm2Response |-> FiveDigitPattern(call.out.agency_record_number)]]
    /\ UNCHANGED <<jobs, cases, audit, now, wk, crashes, failures, returned, resp,
                   applied, cleanup, summary, prompts, tables>>

SpecSchema == Init /\ [][ExtractCall \/ EchoValidate]_vars



-----------------------------------------------------------------------------
(* Properties *)

\* C1: concurrent callers of claim_due_jobs get pairwise disjoint sets of jobs
\* (the rows a caller holds locked or has been returned are nobody else's),
\* every job returned to a caller has been moved to running, and a caller comes
\* back with fewer jobs than it could take only when every other due job is
\* held by another caller.
ClaimSetsDisjoint ==
    /\ \A w1 \in Workers, w2 \in Workers :
          w1 # w2 => (returned[w1] \cup LockedBy(w1))
                        \cap (returned[w2] \cup LockedBy(w2)) = {}
    /\ \A w \in Workers : \A id \in returned[w] : jobs[id].status = "running"

ClaimsAreDisjoint ==
    [][/\ ClaimSetsDisjoint'
       /\ \A w \in Workers :
            (wk[w].pc = "down" /\ wk'[w].pc = "tx") =>
                \/ Len(wk'[w].batch) >= 1 /\ DueIds(jobs, now) \ Locked # {}
                \/ wk'[w].batch = <<>> /\ DueIds(jobs, now) \subseteq Locked]_vars

\* C1 witness: two callers have each been returned jobs, and one of them
\* holds further rows locked in a claim transaction that is still open.
TwoCallersClaimed ==
    \E w1 \in Workers, w2 \in Workers :
        /\ w1 # w2
        /\ returned[w1] # {}
        /\ returned[w2] # {}
        /\ LockedBy(w1) # {}

ActiveJobs(case_id, job_type) ==
    {i \in 1..Len(jobs) : /\ jobs[i].case_id = case_id
                          /\ jobs[i].job_type = job_type
                          /\ jobs[i].status \in {"queued", "running"}}

\* C2: for every case and job type, at most one job of that type is queued or
\* running at any time.
OneActiveJobPerType ==
    \A c \in Cases, t \in JobTypes : Cardinality(ActiveJobs(c, t)) <= 1

\* C3: a job that is done or dead keeps that status in every later step.
DoneAndDeadAreFinal ==
    [][\A i \in 1..Len(jobs) :
          jobs[i].status \in {"done", "dead"} => jobs'[i].status = jobs[i].status]_vars

AllJobsEnded == \A i \in 1..Len(jobs) : jobs[i].status \in {"done", "dead"}

\* C4: under fair scheduling, with a crashed worker started again (startup
\* reconciliation included), every enqueued job eventually is done or dead:
\* from any moment on, a moment comes at which every job enqueued so far is
\* done or dead, so no job stays queued or running forever.
EveryJobEnds == []<>AllJobsEnded

\* C4 witness: a worker has crashed, and afterwards every job has ended, one
\* of them completed and one dead-lettered.
EndedAfterCrash ==
    /\ crashes = MaxCrashes
    /\ AllJobsEnded
    /\ \E i \in 1..Len(jobs) : jobs[i].status = "done"
    /\ \E i \in 1..Len(jobs) : jobs[i].status = "dead"

\* C5: a retry is scheduled only while attempts + 1 < max_attempts, it adds one
\* to attempts and sets run_after to now + compute_retry_delay(attempts + 1); a
\* job is dead-lettered only when attempts + 1 >= max_attempts; so attempts
\* never reaches max_attempts, and the failure finalizer runs at most once per
\* dead job of a case.
DeadJobs(c) == {i \in 1..Len(jobs) : jobs[i].case_id = c /\ jobs[i].status = "dead"}

RetryPolicyHolds ==
    [][/\ \A i \in 1..Len(jobs) :
            /\ jobs'[i].attempts # jobs[i].attempts =>
                  /\ jobs[i].attempts + 1 < jobs[i].max_attempts
                  /\ jobs'[i].attempts = jobs[i].attempts + 1
                  /\ jobs'[i].status = "queued"
                  /\ jobs'[i].run_after = now + compute_retry_delay(jobs[i].attempts + 1)
            /\ (jobs'[i].status = "dead" /\ jobs[i].status # "dead") =>
                  jobs[i].attempts + 1 >= jobs[i].max_attempts
       /\ \A c \in Cases :
            audit'[c]["CASE_FAILED_MAX_RETRIES"] <= Cardinality(DeadJobs(c))']_vars

\* The statuses reachable from s along one or more documented edges.
RECURSIVE ReachFrom(_, _)
ReachFrom(seen, frontier) ==
    IF frontier = {} THEN seen
    ELSE LET next == {e[2] : e \in {d \in DocumentedEdges : d[1] \in frontier}}
         IN  ReachFrom(seen \cup next, next \ seen)

Reachable(s) == ReachFrom({}, {s})

\* C6: every change of a case's status follows the documented edges (one edge,
\* or several when a handler runs through consecutive stages); no terminal
\* status is left and no case moves backward.
StatusChangesAreDocumented ==
    [][\A c \in Cases :
          cases'[c].status # cases[c].status =>
              cases'[c].status \in Reachable(cases[c].status)]_vars

\* a decision submission step and what it was about
Submitted == resp'

WellFormed(decision, support_flag) ==
    \/ decision = "accept" /\ support_flag \in {"none", "anesthesist", "anesthesist_icu"}
    \/ decision = "deny" /\ support_flag = "none"

\* C7: a valid decision that reaches the use-case for a case in WAIT_DOCTOR is
\* applied: accept moves the case to DOCTOR_ACCEPTED and enqueues exactly one
\* post_room3_request job, deny moves it to DOCTOR_DENIED and enqueues exactly
\* one post_room1_final_denial_triage job; the decision and support flag are
\* persisted and one audit event is written.
ValidDecisionIsApplied ==
    [][LET r == Submitted
           c == r.case_id
       IN  /\ (/\ c \in Cases
               /\ cases[c].status = "WAIT_DOCTOR"
               /\ WellFormed(r.decision, r.support_flag)
               /\ r.outcome # "wrong_room") => r.outcome = "applied"
           /\ r.outcome = "applied" =>
                 /\ cases[c].status = "WAIT_DOCTOR"
                 /\ cases'[c].status =
                       (IF r.decision = "accept" THEN "DOCTOR_ACCEPTED"
                        ELSE "DOCTOR_DENIED")
                 /\ cases'[c].doctor_decision = r.decision
                 /\ cases'[c].doctor_support_flag = r.support_flag
                 /\ Len(jobs') = Len(jobs) + 1
                 /\ SubSeq(jobs', 1, Len(jobs)) = jobs
                 /\ jobs'[Len(jobs')].case_id = c
                 /\ jobs'[Len(jobs')].status = "queued"
                 /\ jobs'[Len(jobs')].job_type =
                       (IF r.decision = "accept" THEN "post_room3_request"
                        ELSE "post_room1_final_denial_triage")
                 /\ audit'[c]["DOCTOR_DECISION"] = audit[c]["DOCTOR_DECISION"] + 1]_vars

\* C7 witness: an accept with a support flag has been applied through the
\* Room-2 reply and its Room-3 request job is queued.
AcceptApplied ==
    /\ resp.outcome = "applied"
    /\ resp.entry = "room2"
    /\ resp.decision = "accept"
    /\ resp.support_flag = "anesthesist_icu"
    /\ cases[resp.case_id].status = "DOCTOR_ACCEPTED"
    /\ ActiveJobs(resp.case_id, "post_room3_request") # {}

\* C8: whatever the number and entrypoints of the submissions for a case, at
\* most one has outcome applied; every other submission leaves the cases, the
\* queue and the audit log as they were, and one that reached the use-case
\* found the case outside WAIT_DOCTOR.
AtMostOneApplied ==
    [][/\ \A c \in Cases : applied'[c] <= 1
       /\ Submitted.outcome # "applied" =>
             /\ cases' = cases /\ jobs' = jobs /\ audit' = audit /\ applied' = applied
             /\ Submitted.outcome = "wrong_state" =>
                   cases[Submitted.case_id].status # "WAIT_DOCTOR"]_vars

\* C8 witness: a decision has been applied to a case and a later submission
\* for the same case, through another entrypoint, came back wrong_state.
SecondSubmissionRefused ==
    /\ resp.outcome = "wrong_state"
    /\ resp.entry = "widget"
    /\ resp.case_id \in Cases
    /\ applied[resp.case_id] = 1
    /\ cases[resp.case_id].doctor_decision # resp.decision

\* C9: a submission with decision = deny and a support flag other than none is
\* rejected at validation (code 400 on the webhook, reason
\* invalid_support_flag_for_decision from the Room-2 reply parser) and changes
\* neither the cases nor the queue nor the audit log.
DenyWithSupportIsRejected ==
    [][(Submitted.decision = "deny" /\ Submitted.support_flag # "none") =>
          /\ cases' = cases /\ jobs' = jobs /\ audit' = audit /\ applied' = applied
          /\ Submitted.entry = "webhook" =>
                Submitted.code = 400 /\ Submitted.outcome = "invalid"
          /\ Submitted.entry = "widget" => Submitted.outcome = "invalid"
          /\ Submitted.entry = "room2" =>
                Submitted.outcome = "invalid_support_flag_for_decision"]_vars

\* C9 witness: the webhook has answered 400 to deny + anesthesist for a case
\* that is waiting for its doctor.
DenyWithSupportRefused ==
    /\ resp.entry = "webhook"
    /\ resp.decision = "deny"
    /\ resp.support_flag = "anesthesist"
    /\ resp.code = 400
    /\ resp.case_id \in Cases
    /\ cases[resp.case_id].status = "WAIT_DOCTOR"

\* C10: recover() never enqueues a continuation job for a case that has a
\* queued or running job of that type at the moment of the enqueue.
RecoveryCreatesNoDuplicate ==
    [][\A w \in Workers :
          (wk[w].pc = "rec_enqueue" /\ wk'[w].pc = "rec_audit") =>
              ~has_active_job(jobs, Head(wk[w].scan).case_id,
                              _resolve_recovery_job(Head(wk[w].scan)))]_vars

\* The recovery mapping table of the specification: status -> continuation job.
RecoveryTable ==
    {<<"LLM_SUGGEST", "post_room2_widget">>, <<"R2_POST_WIDGET", "post_room2_widget">>,
     <<"DOCTOR_ACCEPTED", "post_room3_request">>,
     <<"R3_POST_REQUEST", "post_room3_request">>,
     <<"DOCTOR_DENIED", "post_room1_final_denial_triage">>,
     <<"APPT_CONFIRMED", "post_room1_final_appt">>,
     <<"APPT_DENIED", "post_room1_final_appt_denied">>,
     <<"FAILED", "post_room1_final_failure">>,
     <<"CLEANUP_RUNNING", "execute_cleanup">>}

\* C11: the continuation job recovery chooses equals the mapping table: a
\* status of the table yields its job; WAIT_R1_CLEANUP_THUMBS yields
\* execute_cleanup exactly when cleanup_triggered_at is set and the cleanup is
\* not completed; every other status yields no job.
RecoveryFollowsTable ==
    call.fn = "_resolve_recovery_job" =>
        LET snapshot == call.arg
        IN  /\ \A e \in RecoveryTable : snapshot.status = e[1] => call.out = e[2]
            /\ snapshot.status = "WAIT_R1_CLEANUP_THUMBS" =>
                  call.out = (IF /\ snapshot.cleanup_triggered_at
                                 /\ ~snapshot.cleanup_completed_at
                              THEN "execute_cleanup" ELSE "none")
            /\ snapshot.status \in {"NEW", "PDF_EXTRACTED", "WAIT_DOCTOR",
                                     "WAIT_SCHEDULER", "CLEANED"} =>
                  call.out = "none"

\* C11 witness: recovery has resolved a case waiting for cleanup thumbs whose
\* cleanup was triggered and has completed, and chose no job.
ResolvedCompletedCleanup ==
    /\ call.fn = "_resolve_recovery_job"
    /\ call.arg.status = "WAIT_R1_CLEANUP_THUMBS"
    /\ call.arg.cleanup_triggered_at
    /\ call.arg.cleanup_completed_at
    /\ call.out = "none"

\* job i is in the hands of a worker process that is up
Held(i) ==
    \E w \in Workers :
        /\ wk[w].pc # "down"
        /\ \E k \in 1..Len(wk[w].batch) : wk[w].batch[k].job_id = i

\* job i is running on behalf of a process that is gone
Orphaned(i) == i <= Len(jobs) /\ jobs[i].status = "running" /\ ~Held(i)

InHand(w) == Head(wk[w].batch)

\* C13: handle_max_retries on a dead-lettered job with a case sets the case
\* to FAILED, then appends one CASE_FAILED_MAX_RETRIES event, then enqueues
\* exactly one post_room1_final_failure job for the case whose payload has a
\* cause and details of at most 300 characters (the error text cut at 300,
\* "unknown error" when there is none); on a job without case it changes no
\* case, no event and no job.
FinalizerDoesItsThreeSteps ==
    [][\A w \in Workers :
          /\ (wk[w].pc = "fin_status" /\ wk'[w] # wk[w]) =>
                IF InHand(w).case_id = NoCase
                THEN /\ wk'[w].pc \notin {"fin_audit", "fin_enqueue"}
                     /\ cases' = cases /\ jobs' = jobs /\ audit' = audit
                ELSE /\ wk'[w].pc = "fin_audit"
                     /\ cases'[InHand(w).case_id].status = "FAILED"
                     /\ jobs' = jobs
          /\ (wk[w].pc = "fin_audit" /\ wk'[w] # wk[w]) =>
                /\ wk'[w].pc = "fin_enqueue"
                /\ audit'[InHand(w).case_id]["CASE_FAILED_MAX_RETRIES"] =
                      audit[InHand(w).case_id]["CASE_FAILED_MAX_RETRIES"] + 1
                /\ jobs' = jobs
          /\ (wk[w].pc = "fin_enqueue" /\ wk'[w] # wk[w]) =>
                /\ Len(jobs') = Len(jobs) + 1
                /\ SubSeq(jobs', 1, Len(jobs)) = jobs
                /\ LET new == jobs'[Len(jobs')]
                       text == InHand(w).last_error
                   IN  /\ new.job_type = "post_room1_final_failure"
                       /\ new.case_id = InHand(w).case_id
                       /\ new.status = "queued"
                       /\ new.payload.cause \in
                             {CauseWords[k] : k \in 1..Len(CauseWords)} \cup {"other"}
                       /\ new.payload.details.len <= 300
                       /\ new.payload.details.len =
                             (IF text.len = 0 THEN 13
                              ELSE IF text.len > 300 THEN 300 ELSE text.len)
                       /\ new.payload.details.len > 0]_vars

\* C13 witness: a job of a case died with an error text longer than 300
\* characters that names llm2, and its failure job is queued with the cause
\* llm2 and 300 characters of details; the case is FAILED.
LongErrorFinalized ==
    \E i \in 1..Len(jobs), k \in 1..Len(jobs) :
        /\ jobs[i].status = "dead"
        /\ jobs[i].case_id \in Cases
        /\ jobs[i].last_error.len = MaxErrorLen
        /\ k = i + 1
        /\ jobs[k].job_type = "post_room1_final_failure"
        /\ jobs[k].payload.cause = "llm2"
        /\ jobs[k].payload.details.len = 300
        /\ cases[jobs[i].case_id].status = "FAILED"
        /\ audit[jobs[i].case_id]["CASE_FAILED_MAX_RETRIES"] = 1

\* the audit rows of the cleanup run written for message k
RowsOf(k) == {n \in 1..Len(cleanup.log) : cleanup.log[n].ref = k}

\* C14: a finished run of execute has called the adapter for every tracked
\* message, has written exactly one MATRIX_EVENT_REDACTED or
\* MATRIX_EVENT_REDACTION_FAILED row per message, has set the case to CLEANED
\* and has written, last, one CLEANUP_COMPLETED row whose two counts are the
\* numbers of the two kinds of rows and sum to the number of messages; and a
\* run that has started can always take its next step, whatever failed.
CleanupAlwaysCompletes ==
    /\ cleanup.pc \notin {"idle", "done"} => ENABLED CleanupNext
    /\ cleanup.pc = "done" =>
          LET log == cleanup.log
              last == log[Len(log)]
              kind(t) == {n \in 1..Len(log) : log[n].event_type = t}
          IN  /\ \A k \in 1..cleanup.refs :
                    /\ cleanup.calls[k] >= 1
                    /\ Cardinality(RowsOf(k)) = 1
                    /\ \A n \in RowsOf(k) :
                          log[n].event_type \in {"MATRIX_EVENT_REDACTED",
                                                 "MATRIX_EVENT_REDACTION_FAILED"}
              /\ Len(log) = cleanup.refs + 1
              /\ cases[cleanup.case_id].status = "CLEANED"
              /\ cases[cleanup.case_id].cleanup_completed_at
              /\ last.event_type = "CLEANUP_COMPLETED"
              /\ Cardinality(kind("CLEANUP_COMPLETED")) = 1
              /\ audit[cleanup.case_id]["CLEANUP_COMPLETED"] = 1
              /\ last.count_redacted_success =
                    Cardinality(kind("MATRIX_EVENT_REDACTED"))
              /\ last.count_redacted_failed =
                    Cardinality(kind("MATRIX_EVENT_REDACTION_FAILED"))
              /\ last.count_redacted_success + last.count_redacted_failed =
                    cleanup.refs

\* C14 witness: a run over MaxRefs messages has ended with every redaction
\* failed
EveryRedactionFailed ==
    /\ cleanup.pc = "done"
    /\ cleanup.refs = MaxRefs
    /\ cleanup.failed_count = MaxRefs
    /\ cases[cleanup.case_id].status = "CLEANED"

\* what the executor takes for a rate limit: no integer status code other
\* than 429, and a status code 429 or a retry_after_ms in the details or the
\* message
TakenForRateLimit(error) ==
    /\ error.status_code \in {429, None}
    /\ \/ error.status_code = 429
       \/ error.details.parsed # None \/ error.details.matched # None
       \/ error.message.parsed # None \/ error.message.matched # None

\* the retry_after_ms an error carries: that of its details, else that of its
\* message, each read as JSON first and by pattern second
CarriedRetryAfter(error) ==
    IF error.details.parsed # None THEN error.details.parsed
    ELSE IF error.details.matched # None THEN error.details.matched
    ELSE IF error.message.parsed # None THEN error.message.parsed
    ELSE error.message.matched

\* the adapter has just raised on the previous step's call
Raised == cleanup'.raised /\ cleanup'.calls # cleanup.calls

SummaryJobs(w) ==
    {i \in 1..Len(jobs) : /\ jobs[i].job_type = "post_room4_summary"
                          /\ jobs[i].payload.window = w}

\* the scheduler calls that have claimed a window and not yet enqueued
Enqueueing(w) ==
    {p \in Schedulers : summary.procs[p].pc = "enqueue" /\ summary.procs[p].window = w}

\* C16: however many scheduler calls are made for a window, one after the
\* other or together, the window has one dispatch row from the first INSERT
\* on, exactly one call has claimed it, and it has one post_room4_summary
\* job, queued, as soon as that call has enqueued; a returned call has either
\* claimed and holds the id of that job, or has not claimed and holds no job id.
SchedulerIsIdempotent ==
    /\ \A w \in Windows :
          /\ Cardinality(RowsOfWindow(summary.rows, w)) <= 1
          /\ summary.claimed[w] = Cardinality(RowsOfWindow(summary.rows, w))
          /\ Cardinality(Enqueueing(w)) <= 1
          /\ Cardinality(SummaryJobs(w)) + Cardinality(Enqueueing(w)) =
                summary.claimed[w]
          /\ \A i \in SummaryJobs(w) : jobs[i].status = "queued"
    /\ \A p \in Schedulers :
          LET me == summary.procs[p]
          IN  (me.pc = "idle" /\ me.calls > 0) =>
                IF me.claimed_dispatch
                THEN SummaryJobs(me.window) = {me.enqueued_job_id}
                ELSE /\ me.enqueued_job_id = 0
                     /\ summary.claimed[me.window] = 1

\* C16 witness: every scheduler has made all its calls and is back, one of
\* them was refused a window that has its one row and its one queued job
SecondCallRefused ==
    /\ \A p \in Schedulers :
          summary.procs[p].pc = "idle" /\ summary.procs[p].calls = MaxSchedulerCalls
    /\ \E p \in Schedulers :
          /\ ~summary.procs[p].claimed_dispatch
          /\ Cardinality(SummaryJobs(summary.procs[p].window)) = 1
          /\ Cardinality(RowsOfWindow(summary.rows, summary.procs[p].window)) = 1

\* the sent rows of a window
SentRows(w) ==
    {n \in RowsOfWindow(summary.rows, w) : summary.rows[n].status = "sent"}

\* C17: a window has at most one sent dispatch; at most one mark_sent call
\* for it has returned true, and only on a pending row; a sent row is never
\* changed again (its matrix_event_id and sent_at stay); and while a window is
\* sent no claim_window for it succeeds.
AtMostOneSentPerWindow ==
    [][\A w \in Windows :
          /\ Cardinality(SentRows(w)) <= 1
          /\ summary.marked[w] <= 1
          /\ summary'.marked[w] # summary.marked[w] =>
                /\ MarkedRows(summary.rows, w) # {}
                /\ \A n \in MarkedRows(summary.rows, w) :
                      summary'.rows[n].status = "sent"
          /\ \A n \in SentRows(w) : summary'.rows[n] = summary.rows[n]
          /\ SentRows(w) # {} =>
                /\ summary'.claimed[w] = summary.claimed[w]
                /\ summary'.marked[w] = summary.marked[w]
                /\ \A p \in Schedulers :
                      (summary.procs[p].pc \in {"idle", "reclaim"}
                         /\ summary'.procs[p].window = w) =>
                        summary'.procs[p].pc # "enqueue"]_vars

\* C17 witness: a window reclaimed after a failure was sent by the first
\* delivery, and a later mark_sent for it has returned false
LaterMarkRefused ==
    \E n \in 1..Len(summary.rows) :
        /\ summary.rows[n].status = "sent"
        /\ summary.rows[n].matrix_event_id = 1
        /\ summary.claimed[summary.rows[n].window] = 2
        /\ summary.last = [fn |-> "mark_sent", window |-> summary.rows[n].window,
                           out |-> FALSE]

EdaRulesAreExclusive ==
    call.fn = "reconcile_eda_policy" =>
        LET precheck == call.arg.precheck
            llm2 == call.arg.llm2
            out == call.out
            labs_fail == precheck.labs_required /\ precheck.labs_pass # "yes"
            ecg_fail == precheck.ecg_required /\ precheck.ecg_present # "yes"
            aligned(v) == IF v = "no" THEN "no" ELSE "unknown"
        IN  /\ out.pediatric_flag = llm2.pediatric_flag
            /\ IF precheck.excluded_from_eda_flow
               THEN /\ out.suggestion = "deny"
                    /\ out.excluded_request
                    /\ out.labs_ok = llm2.labs_ok
                    /\ out.ecg_ok = llm2.ecg_ok
               ELSE IF precheck.indication_category = "foreign_body"
               THEN /\ out.suggestion = llm2.suggestion
                    /\ out.excluded_request = llm2.excluded_request
                    /\ out.labs_ok = "not_required"
                    /\ out.ecg_ok = "not_required"
               ELSE /\ out.excluded_request = llm2.excluded_request
                    /\ out.suggestion =
                          (IF labs_fail \/ ecg_fail THEN "deny" ELSE llm2.suggestion)
                    /\ out.labs_ok =
                          (IF labs_fail THEN aligned(precheck.labs_pass)
                           ELSE llm2.labs_ok)
                    /\ out.ecg_ok =
                          (IF ecg_fail THEN aligned(precheck.ecg_present)
                           ELSE llm2.ecg_ok)

\* C20: a retry of the extraction on the same report text, at a later time,
\* returns the agency_record_number and the cleaned_text of the first run,
\* whether or not the text holds a registration code.
ExtractionIsStableAcrossRetries ==
    (call.fn = "extract_and_strip_agency_record_number" /\ call.retries > 0) =>
        /\ call.again.agency_record_number = call.out.agency_record_number
        /\ call.again.cleaned_text = call.out.cleaned_text

\* The base delay the claim names: 30, 120, 300, 600, 1200 seconds for attempts
\* 1..5 and 1200 seconds for every later attempt.
ClaimedBase(attempt) ==
    CASE attempt = 1 -> 30 [] attempt = 2 -> 120 [] attempt = 3 -> 300
      [] attempt = 4 -> 600 [] OTHER -> 1200

\* C21: for every attempt >= 1 compute_retry_delay(attempt) is the same whenever
\* it is computed and lies within +/-10% of the base delay (30, 120, 300, 600,
\* 1200 seconds for attempts 1..5, 1200 seconds afterwards); an attempt < 1 is
\* rejected with an error.
BackoffWithinTenPercent ==
    call.fn = "compute_retry_delay" =>
        /\ call.again = call.out
        /\ call.arg < 1 => call.out.raised
        /\ call.arg >= 1 =>
              /\ ~call.out.raised
              /\ 10 * call.out.seconds >= 9 * ClaimedBase(call.arg)
              /\ 10 * call.out.seconds <= 11 * ClaimedBase(call.arg)

\* the delay of a late attempt (past the end of the table) was computed twice
LateAttemptDelayed ==
    /\ call.fn = "compute_retry_delay"
    /\ call.arg > Len(BaseSeconds)
    /\ call.retries = 1
    /\ call.out.seconds # ClaimedBase(call.arg)

Llm2Run == call.fn = "Llm2Service.run"

\* the first response of the run is a valid Llm2Response of the run's own case
\* and record number whose narrative holds a forbidden English term
FirstResponseHadEnglish ==
    /\ Llm2Run
    /\ Len(call.responses) >= 1
    /\ call.responses[1].shape = "Llm2Response"
    /\ IdentityMismatch(call.responses[1], call.arg.case_id,
                        call.arg.agency_record_number) = ""
    /\ collect_forbidden_terms(call.responses[1].narrative) # {}

\* C22: when the narrative fields of an LLM2 response contain a forbidden
\* English term, run calls the LLM exactly one more time; with a clean second
\* response the run succeeds with it, and with a forbidden term still present
\* it raises Llm2RetriableError with cause llm2 after exactly two LLM calls.
LanguageGuardRetriesOnce ==
    /\ Llm2Run /\ call.pc = "returned" =>
          collect_forbidden_terms(call.out.narrative) = {}
    /\ FirstResponseHadEnglish /\ call.pc \in {"returned", "raised"} =>
          Len(call.responses) = 2

\* C23: run returns a result only if the response's case_id and
\* agency_record_number both equal the values of its input; on any mismatch it
\* raises Llm2RetriableError with cause llm2 and returns nothing to persist.
Llm2ResultCarriesInputIdentity ==
    Llm2Run =>
        /\ call.pc = "returned" =>
              /\ call.out.case_id = str_case_id(call.arg.case_id)
              /\ call.out.agency_record_number = call.arg.agency_record_number
        /\ \A i \in 1..Len(call.responses) :
              /\ call.responses[i].shape = "Llm2Response"
              /\ \/ call.responses[i].case_id # str_case_id(call.arg.case_id)
                 \/ call.responses[i].agency_record_number
                        # call.arg.agency_record_number
              => /\ call.pc = "raised"
                 /\ call.error.cause = "llm2"
                 /\ call.out = NoLlm2Result

\* a valid response with the right case_id and another record number was refused
WrongRecordNumberRefused ==
    /\ Llm2Run
    /\ call.pc = "raised"
    /\ Len(call.responses) = 1
    /\ call.responses[1].shape = "Llm2Response"
    /\ call.responses[1].case_id = str_case_id(call.arg.case_id)
    /\ call.responses[1].agency_record_number # call.arg.agency_record_number
    /\ call.error = Llm2RetriableError("LLM2 agency_record_number mismatch")

\* a worker is between two steps of the failure finalizer for case c
Finalizing(c) ==
    \E w \in Workers : /\ wk[w].pc \in {"fin_audit", "fin_enqueue"}
                       /\ InHand(w).case_id = c

\* C24: every case status transition is accompanied by an audit event: once no
\* service is at work on the case any more (it returned, raised or its process
\* crashed), a case set to FAILED has its CASE_FAILED_MAX_RETRIES event, a
\* case set to CLEANED its CLEANUP_COMPLETED event and a decided case its
\* DOCTOR_DECISION event.
EveryTransitionIsAudited ==
    \A c \in Cases :
        /\ cases[c].status = "FAILED" /\ ~Finalizing(c) =>
              audit[c]["CASE_FAILED_MAX_RETRIES"] > 0
        /\ cases[c].status = "CLEANED" => audit[c]["CLEANUP_COMPLETED"] > 0
        /\ cases[c].status \in {"DOCTOR_ACCEPTED", "DOCTOR_DENIED"} =>
              audit[c]["DOCTOR_DECISION"] > 0

\* the UTC times of all morning and evening cutoffs in local time around the run
CutoffsUtc(arg) ==
    {day * MinutesPerDay + hour * 60 - utcoffset(arg.timezone_name) :
        day \in 0..(MaxRunDay + 2), hour \in {arg.morning_hour, arg.evening_hour}}

\* C25: resolve_previous_summary_window returns as window end the greatest
\* morning/evening cutoff in local time that is less than or equal to the run
\* time, and window start = window end minus exactly 12 hours, both in UTC;
\* with cutoffs 07:00/19:00 in America/Bahia a run at 2026-02-16T22:00Z yields
\* [2026-02-16T10:00Z, 2026-02-16T22:00Z].
WindowIsLatestCutoff ==
    call.fn = "resolve_previous_summary_window" =>
        /\ ~call.out.raised
        /\ call.out.window_end_utc \in CutoffsUtc(call.arg)
        /\ call.out.window_end_utc <= call.arg.run_at_utc
        /\ \A cutoff \in CutoffsUtc(call.arg) :
              cutoff <= call.arg.run_at_utc => cutoff <= call.out.window_end_utc
        /\ call.out.window_start_utc = call.out.window_end_utc - 12 * 60
        /\ call.arg = [run_at_utc |-> 2 * MinutesPerDay + 22 * 60,
                       timezone_name |-> "America/Bahia",
                       morning_hour |-> 7, evening_hour |-> 19]
              => /\ call.out.window_start_utc = 2 * MinutesPerDay + 10 * 60
                 /\ call.out.window_end_utc = 2 * MinutesPerDay + 22 * 60

\* the run of 2026-02-16T22:00Z in America/Bahia, exactly at the evening cutoff
EveningRunAtCutoff ==
    /\ call.fn = "resolve_previous_summary_window"
    /\ call.arg = [run_at_utc |-> 2 * MinutesPerDay + 22 * 60,
                   timezone_name |-> "America/Bahia",
                   morning_hour |-> 7, evening_hour |-> 19]
    /\ call.out.window_end_utc = call.arg.run_at_utc
    /\ call.out.window_start_utc = 2 * MinutesPerDay + 10 * 60

CommittedOrigins(room_id, event_id) ==
    {i \in OriginRows(room_id, event_id) : tables.origins[i].committed}

\* the rows of one origin in a cases table
CasesOfOrigin(origins, room_id, event_id) ==
    {i \in 1..Len(origins) : /\ origins[i].room1_origin_room_id = room_id
                             /\ origins[i].room1_origin_event_id = event_id}

\* C26: at most one case ever exists for a given Room-1 origin
\* (room_id, event_id): create_case for an origin that already has a case
\* raises DuplicateCaseOriginEventError and creates nothing, also when two
\* creations for the same event race.
OneCasePerOrigin ==
    [][/\ \A room_id \in 1..NumRooms, event_id \in 1..NumEvents :
             Cardinality(CasesOfOrigin(tables'.origins, room_id, event_id)) <= 1
       /\ \A p \in Creators :
             /\ tables'.creators[p] # tables.creators[p]
             /\ tables'.creators[p].result = "DuplicateCaseOriginEventError"
             => /\ tables'.origins = tables.origins
                /\ CommittedOrigins(tables'.creators[p].room_id,
                                    tables'.creators[p].event_id) # {}]_vars

\* of two racing creations for one event the second waited and was refused
RacingCreationRefused ==
    \E p \in Creators :
        /\ tables.creators[p].waited
        /\ tables.creators[p].result = "DuplicateCaseOriginEventError"
        /\ Cardinality(CommittedOrigins(tables.creators[p].room_id,
                                        tables.creators[p].event_id)) = 1

\* C27: rows of the transcript tables (case_report_transcripts,
\* case_llm_interactions, case_matrix_message_transcripts) can only be
\* inserted: with the migration applied, every UPDATE or DELETE of a stored
\* row fails, and no UPDATE or DELETE changes or removes a row.
TranscriptsAreAppendOnly ==
    /\ tables.last.op \in {"update", "delete"}
    /\ tables.last.at_head
    => /\ tables.last.after = tables.last.before
       /\ tables.last.matched > 0 => tables.last.failed

\* a DELETE of a stored message transcript was refused
TranscriptDeleteRefused ==
    /\ tables.last.op = "delete"
    /\ tables.last.table = "case_matrix_message_transcripts"
    /\ tables.last.at_head
    /\ tables.last.matched > 0
    /\ tables.last.failed
    /\ tables.last.after = tables.last.before

\* the jobs that go from queued to running in a step
NewlyRunning ==
    {i \in 1..Len(jobs) : jobs[i].status = "queued" /\ jobs'[i].status = "running"}

\* C28: claim_due_jobs(limit) returns at most limit jobs, each of which was
\* queued with run_after <= now at the time of the claim and is running
\* afterwards; a job whose run_after lies in the future (one rescheduled by
\* schedule_retry, say) is never claimed before its run_after.
ClaimTakesOnlyDueJobs ==
    [][/\ \A i \in NewlyRunning : jobs[i].run_after <= now
       /\ \A w \in Workers :
            wk[w].pc = "poll" /\ wk'[w].pc = "run" =>
                /\ Len(wk'[w].batch) <= ClaimLimit
                /\ \A k \in 1..Len(wk'[w].batch) :
                      LET id == wk'[w].batch[k].job_id
                      IN  /\ id \in NewlyRunning
                          /\ wk'[w].batch[k].status = "running"
                          /\ wk'[w].batch[k].run_after <= now]_vars

\* a job rescheduled by schedule_retry is in a worker's hand again, claimed
\* once its run_after had come
RetriedJobClaimedWhenDue ==
    \E w \in Workers :
        /\ wk[w].pc = "run"
        /\ InHand(w).attempts >= 1
        /\ InHand(w).run_after > 0
        /\ InHand(w).run_after <= now
        /\ jobs[InHand(w).job_id].status = "running"

\* "Unknown job type: unknown-type"
UnknownJobTypeText == Text(30, {})

\* worker w holds a job of an unregistered type at position pc and takes a
\* step of its own, other than dying
StepsWithUnknownJob(w, pc) ==
    /\ wk[w].pc = pc
    /\ InHand(w).job_type \notin HandlerTypes
    /\ wk'[w] # wk[w]
    /\ wk'[w].pc # "down"

\* C29: a claimed job whose job_type has no registered handler is treated as a
\* retriable handler failure with error text "Unknown job type: <type>": it
\* is rescheduled through schedule_retry, or dead-lettered once retries are
\* exhausted, and is never marked done.
UnknownTypeIsRetried ==
    [][/\ \A i \in 1..Len(jobs') :
             jobs'[i].job_type \notin HandlerTypes => jobs'[i].status # "done"
       /\ \A w \in Workers :
             /\ StepsWithUnknownJob(w, "run") => wk'[w].pc = "err"
             /\ StepsWithUnknownJob(w, "err") =>
                   LET job == InHand(w)
                       after == jobs'[job.job_id]
                   IN  /\ after.last_error = UnknownJobTypeText
                       /\ IF job.attempts + 1 < job.max_attempts
                          THEN /\ after.status = "queued"
                               /\ after.attempts = jobs[job.job_id].attempts + 1
                               /\ after.run_after
                                      = now + compute_retry_delay(job.attempts + 1)
                          ELSE after.status = "dead"]_vars

\* a job of an unregistered type was retried and then dead-lettered
UnknownTypeDeadLettered ==
    \E i \in 1..Len(jobs) :
        /\ jobs[i].job_type = "unknown-type"
        /\ jobs[i].status = "dead"
        /\ jobs[i].attempts >= 1
        /\ jobs[i].last_error = UnknownJobTypeText

\* the case of the cleanup run is in its cleanup state
InCleanupState ==
    \/ cases[cleanup.case_id].status = "CLEANUP_RUNNING"
    \/ /\ cases[cleanup.case_id].status = "WAIT_R1_CLEANUP_THUMBS"
       /\ cases[cleanup.case_id].cleanup_triggered_at

\* C30: handlers check the case status on entry and short-circuit on a wrong
\* state: ExecuteCleanupService.execute calls the redactor and marks the case
\* CLEANED only when the case is in its cleanup state; invoked for a case in
\* any other status it leaves the case status unchanged.
CleanupChecksStatusOnEntry ==
    [][/\ cleanup'.calls # cleanup.calls /\ cleanup.pc = "redact" => InCleanupState
       /\ cases' # cases /\ cleanup.pc = "complete" => InCleanupState]_vars

\* the contradictions recorded for one field
ContradictionsOf(out, field) ==
    {i \in 1..Len(out.contradictions) : out.contradictions[i].field = field}

\* C31: reconcile_eda_policy emits a contradiction exactly for each field it
\* actually changed: every contradiction has a previous value different from
\* its reconciled value, a field has a contradiction if and only if the output
\* differs from the LLM2 input on it, so the output equals the input on
\* suggestion, excluded_request, labs_ok and ecg_ok if and only if the list is
\* empty, and pediatric_flag and notes are returned unchanged.
ContradictionsMatchChanges ==
    call.fn = "reconcile_eda_policy" =>
        LET llm2 == call.arg.llm2
            out == call.out
        IN  /\ \A i \in 1..Len(out.contradictions) :
                  out.contradictions[i].previous_value #
                      out.contradictions[i].reconciled_value
            /\ (ContradictionsOf(out, "suggestion") # {})
                  <=> (out.suggestion # llm2.suggestion)
            /\ (ContradictionsOf(out, "policy_alignment.excluded_request") # {})
                  <=> (out.excluded_request # llm2.excluded_request)
            /\ (ContradictionsOf(out, "policy_alignment.labs_ok") # {})
                  <=> (out.labs_ok # llm2.labs_ok)
            /\ (ContradictionsOf(out, "policy_alignment.ecg_ok") # {})
                  <=> (out.ecg_ok # llm2.ecg_ok)
            /\ \A i \in 1..Len(out.contradictions) :
                  out.contradictions[i].field \in
                      {"suggestion", "policy_alignment.excluded_request",
                       "policy_alignment.labs_ok", "policy_alignment.ecg_ok"}
            /\ (out.contradictions = <<>>)
                  <=> /\ out.suggestion = llm2.suggestion
                      /\ out.excluded_request = llm2.excluded_request
                      /\ out.labs_ok = llm2.labs_ok
                      /\ out.ecg_ok = llm2.ecg_ok
            /\ out.pediatric_flag = llm2.pediatric_flag
            /\ out.notes = llm2.notes

\* an excluded request with failed labs and a missing ECG: four fields of an
\* accept with notes are overridden, one contradiction each
FourFieldsOverridden ==
    /\ call.fn = "reconcile_eda_policy"
    /\ Len(call.out.contradictions) = 4
    /\ call.arg.llm2.suggestion = "accept"
    /\ call.arg.llm2.notes # "None"
    /\ call.out.suggestion = "deny"
    /\ call.out.notes = call.arg.llm2.notes

\* C32: the failure cause is the label from {download, extract,
\* record_extract, llm1, llm2} that occurs in the dead job's last_error, and
\* other when none occurs or last_error is empty; a last_error that names
\* record_extract and no other stage yields cause record_extract.
CauseIsTheLabelNamed ==
    call.fn = "_categorize_failure" =>
        /\ (call.arg.len = 0 \/ call.arg.has = {}) <=> call.out = "other"
        /\ call.out # "other" => call.out \in call.arg.has
        /\ call.arg.has = {"extract", "record_extract"} =>
              call.out = "record_extract"

\* C33: once a case's status is CLEANED it never changes again: no later
\* dead-lettered job of the case, recovery run or repeated cleanup execution
\* moves a CLEANED case to FAILED or to any other status.
CleanedIsFinal ==
    [][\A c \in Cases :
          cases[c].status = "CLEANED" => cases'[c].status = "CLEANED"]_vars

\* the post_room1_final_failure jobs of a case, whatever their status
FailureJobsOf(js, c) ==
    {i \in 1..Len(js) : js[i].case_id = c /\ js[i].job_type = "post_room1_final_failure"}

\* C34: failure finalization terminates: when a post_room1_final_failure job
\* itself exhausts its retries and is dead-lettered, the finalizer that runs
\* on it enqueues no further post_room1_final_failure job for the case, so
\* the jobs of the chain stay finitely many.
FailureChainEnds ==
    [][\A w \in Workers :
          /\ wk[w].pc = "fin_enqueue"
          /\ wk'[w] # wk[w]
          /\ Head(wk[w].batch).job_type = "post_room1_final_failure"
          => FailureJobsOf(jobs', Head(wk[w].batch).case_id) =
                FailureJobsOf(jobs, Head(wk[w].batch).case_id)]_vars

\* C35: every job type that a component of the system enqueues, including
\* post_room4_summary enqueued by the summary scheduler, has a handler in the
\* map returned by build_worker_handlers: no job in the queue is of a type
\* without handler, and no worker takes the unknown-job-type path with a job
\* the system enqueued.
EnqueuedTypesHaveHandlers ==
    [][/\ \A i \in 1..Len(jobs') : jobs'[i].status = "dead" =>
             jobs'[i].job_type \in HandlerTypes
       /\ \A w \in Workers :
             wk[w].pc = "run" /\ wk'[w].pc = "err" =>
                Head(wk[w].batch).job_type \in HandlerTypes]_vars

\* the post_room4_summary jobs enqueued for a window
SummaryJobsOf(w) ==
    {i \in 1..Len(jobs) : /\ jobs[i].job_type = "post_room4_summary"
                          /\ jobs[i].payload.window = w}

\* a scheduler call is between its claim of the window and its enqueue
EnqueueInFlight(w) ==
    \E p \in Schedulers :
        summary.procs[p].pc = "enqueue" /\ summary.procs[p].window = w

\* C36: claiming a summary window and enqueueing its job behave as one step:
\* whenever a dispatch row is pending and no scheduler call is still on its
\* way to the enqueue, a post_room4_summary job for that window has been
\* enqueued, also when the enqueue failed or the scheduler stopped after
\* claim_window succeeded.
PendingWindowHasJob ==
    \A n \in 1..Len(summary.rows) :
        summary.rows[n].status = "pending" =>
            \/ SummaryJobsOf(summary.rows[n].window) # {}
            \/ EnqueueInFlight(summary.rows[n].window)

\* the ids of the jobs a worker process has claimed and not yet let go
JobIdsInHand(w) ==
    IF wk[w].pc = "down" THEN {}
    ELSE {wk[w].batch[k].job_id : k \in 1..Len(wk[w].batch)}

\* C37: a job is executed by at most one worker at a time, also when workers
\* start at different times: a worker's startup reconciliation does not
\* return to queued a job that another, live worker has in hand, and no two
\* live workers have the same job in hand.
OneWorkerPerJob ==
    [][/\ \A w \in Workers, v \in Workers :
             (wk[w].pc = "down" /\ wk'[w].pc # "down" /\ v # w) =>
                \A i \in JobIdsInHand(v) :
                    jobs[i].status = "running" => jobs'[i].status = "running"
       /\ \A w \in Workers, v \in Workers :
             w # v => JobIdsInHand(w)' \cap JobIdsInHand(v)' = {}]_vars

\* a case that waits for a person: for the doctor, for the scheduler, or for
\* the thumbs-up that triggers the cleanup
WaitsForHuman(snapshot) ==
    \/ snapshot.status \in {"WAIT_DOCTOR", "WAIT_SCHEDULER"}
    \/ snapshot.status = "WAIT_R1_CLEANUP_THUMBS" /\ ~snapshot.cleanup_triggered_at

\* C38: recover() gives every case that is not CLEANED and is not waiting for
\* a human a continuation job: _resolve_recovery_job names one for each such
\* snapshot, a case in NEW or PDF_EXTRACTED whose process_pdf_case job is
\* missing included, so that the case has a queued or running job afterwards.
RecoveryCoversEveryCase ==
    call.fn = "_resolve_recovery_job" =>
        ((/\ call.arg.status # "CLEANED"
          /\ ~WaitsForHuman(call.arg)
          /\ ~call.arg.cleanup_completed_at) => call.out # "none")

\* C39: for every agency_record_number the extractor can store on a case (a
\* registration code of 5 or more digits, the 13-digit epoch-millisecond
\* fallback), an LLM1 or LLM2 response that echoes that number passes schema
\* validation.
StoredNumberPassesSchema ==
    call.fn = "model_validate" => call.out.Llm1Response /\ call.out.Llm2Response

\* C40: reconcile_eda_policy never turns a deny into an accept, and its
\* output suggestion is accept only if the precheck is not
\* excluded_from_eda_flow and either indication_category is foreign_body or
\* both (labs are not required or labs_pass = yes) and (ECG is not required
\* or ecg_present = yes) hold.
AcceptOnlyWhenPolicyAllows ==
    call.fn = "reconcile_eda_policy" =>
        LET precheck == call.arg.precheck
        IN  /\ call.arg.llm2.suggestion = "deny" => call.out.suggestion = "deny"
            /\ call.out.suggestion = "accept" =>
                  /\ ~precheck.excluded_from_eda_flow
                  /\ \/ precheck.indication_category = "foreign_body"
                     \/ /\ ~precheck.labs_required \/ precheck.labs_pass = "yes"
                        /\ ~precheck.ecg_required \/ precheck.ecg_present = "yes"

\* an accept that stands: labs and ECG are required and both are there
AcceptWithLabsAndEcg ==
    /\ call.fn = "reconcile_eda_policy"
    /\ call.out.suggestion = "accept"
    /\ call.arg.precheck.indication_category # "foreign_body"
    /\ call.arg.precheck.labs_required
    /\ call.arg.precheck.ecg_required
    /\ call.out.contradictions = <<>>

====
